---- MODULE Spec2Model ----
(***************************************************************************)
(* Zone-based forex signal pipeline (streamlit_app): Signal Synthesizer,   *)
(* Zone Builder, Trend Classifier, Price-Action Matcher, Entry Timing      *)
(* Selector and the ZoneTrader.run_analysis driver.                        *)
(*                                                                         *)
(* Prices, moving averages and ATR are integers counted in pips.  A candle *)
(* series (pandas DataFrame) is a record: its length and the values the    *)
(* code reads from it (latest close, latest moving averages, the rolling   *)
(* averages, the detector counts).  A float that may be NaN or None is a   *)
(* record [kind, v]; the outcome of a call is [status |-> "returned", ...] *)
(* or [status |-> "raised", exc |-> <exception type>].                     *)
(***************************************************************************)
EXTENDS Integers, Sequences, FiniteSets, TLC

VARIABLES
    call,   \* the invocation in progress: the operation and its arguments
    ret,    \* its outcome: pending, returned with a value, or raised
    tc,     \* the module globals of trading_config that the presets assign
    first,  \* the outcome the caller kept from the call before this one
    pc,     \* the step safe_get_signals has reached ("caller" outside of it)
    requests \* the get_candles requests issued so far, with what each gave

vars == <<call, ret, tc, first, pc, requests>>

Num(x) == [kind |-> "num", v |-> x]
NaN == [kind |-> "nan", v |-> 0]
None == [kind |-> "none", v |-> 0]
IsNum(f) == f.kind = "num"
\* a quotient num / den kept exact
Ratio(num, den) == [kind |-> "ratio", num |-> num, den |-> den]

Pending == [status |-> "pending"]
Returned(value) == [status |-> "returned", value |-> value]
Raised(exc, message) == [status |-> "raised", exc |-> exc, message |-> message]
\* no earlier call on these arguments
NotYet == [status |-> "none"]

Abs(x) == IF x < 0 THEN -x ELSE x
Min(a, b) == IF a <= b THEN a ELSE b
Max(a, b) == IF a >= b THEN a ELSE b

(***************************************************************************)
(* trading_config.py                                                       *)
(***************************************************************************)
TREND_MA_PERIOD == 200
ZONE_WIDTH_PIPS == 15
MIN_ZONE_TOUCHES == 2
VOLUME_LOOKBACK == 20
\* RISK_REWARD_RATIO = 1.7, in tenths
RISK_REWARD_RATIO_X10 == 17
\* the stop distance atr * 2.5 of _calculate_risk_reward, in tenths
STOP_ATR_MULT_X10 == 25
\* the period of calculate_atr(h1_data, 14)
RR_ATR_PERIOD == 14
\* the literal `len(df) < 14` of _atr_based_zones
ATR_MIN_ROWS == 14
ATR_PERIOD == 14
VOLATILITY_LOOKBACK == 30
MARKET_CONDITION_LOOKBACK == 40
ZONE_METADATA_LOOKBACK == 20
\* lookback of get_zone_interaction(df, lookback=5)
INTERACTION_LOOKBACK == 5
\* period of calculate_atr(df, period=14)
ATR_DEFAULT_PERIOD == 14
\* multipliers in tenths
HIGH_VOLATILITY_MULTIPLIER_X10 == 12
LOW_VOLATILITY_MULTIPLIER_X10 == 6
NORMAL_VOLATILITY_MULTIPLIER_X10 == 8
STRONG_TREND_ZONE_MULTIPLIER_X10 == 7
MEDIUM_TREND_ZONE_MULTIPLIER_X10 == 9
WEAK_TREND_ZONE_MULTIPLIER_X10 == 12
TRENDING_MARKET_MULTIPLIER_X10 == 8
RANGING_MARKET_MULTIPLIER_X10 == 13
MIXED_MARKET_MULTIPLIER_X10 == 10
\* thresholds in tenths
TRENDING_EFFICIENCY_THRESHOLD_X10 == 6
RANGING_EFFICIENCY_THRESHOLD_X10 == 3
TRENDING_R_SQUARED_THRESHOLD_X10 == 5
SLOPE_LOOKBACK == 20
STRUCTURE_LOOKBACK == 50
MOMENTUM_LOOKBACK == 30
\* ROC thresholds in percent; MOMENTUM_THRESHOLD = 0.5 in tenths of a pip
ROC_BULLISH_THRESHOLD == 2
ROC_BEARISH_THRESHOLD == -2
MOMENTUM_THRESHOLD_X10 == 5
\* TIMEFRAME_WEIGHTS, and weights.get(tf, 1.0)
TIMEFRAME_WEIGHTS == [daily |-> 3, h4 |-> 2, h1 |-> 1]
\* MTF thresholds in hundredths
MTF_BULLISH_THRESHOLD_X100 == 30
MTF_BEARISH_THRESHOLD_X100 == -30
MTF_STRONG_THRESHOLD_X100 == 60
\* COMPOSITE_ZONE_WEIGHTS in tenths
COMPOSITE_ZONE_WEIGHTS ==
    [atr |-> 4, volatility |-> 3, market_condition |-> 3]

\* the assignments of the module body, before the preset call of its last lines
ModuleLiterals ==
    [ENTRY_TIMING_METHOD |-> "ZONE_REJECTION",
     TREND_ANALYSIS_METHOD |-> "COMPOSITE_TREND",
     ZONE_SIZING_METHOD |-> "COMPOSITE_ZONES",
     PRICE_ACTION_METHOD |-> "COMPREHENSIVE",
     MIN_CONFLUENCE_CONFIRMATIONS |-> 2,
     ATR_ZONE_MULTIPLIER_X100 |-> 75]

use_conservative_settings(cfg) ==
    [cfg EXCEPT !.ENTRY_TIMING_METHOD = "CONFLUENCE_CONFIRMATION",
                !.TREND_ANALYSIS_METHOD = "COMPOSITE_TREND",
                !.ZONE_SIZING_METHOD = "COMPOSITE_ZONES",
                !.PRICE_ACTION_METHOD = "COMPREHENSIVE",
                !.MIN_CONFLUENCE_CONFIRMATIONS = 3,
                !.ATR_ZONE_MULTIPLIER_X100 = 100]

use_aggressive_settings(cfg) ==
    [cfg EXCEPT !.ENTRY_TIMING_METHOD = "ZONE_REJECTION",
                !.TREND_ANALYSIS_METHOD = "MA_ALIGNMENT",
                !.ZONE_SIZING_METHOD = "ATR_BASED",
                !.PRICE_ACTION_METHOD = "BASIC_PATTERNS",
                !.MIN_CONFLUENCE_CONFIRMATIONS = 1,
                !.ATR_ZONE_MULTIPLIER_X100 = 50]

use_balanced_settings(cfg) ==
    [cfg EXCEPT !.ENTRY_TIMING_METHOD = "ZONE_REJECTION",
                !.TREND_ANALYSIS_METHOD = "COMPOSITE_TREND",
                !.ZONE_SIZING_METHOD = "VOLATILITY_ADAPTIVE",
                !.PRICE_ACTION_METHOD = "REVERSAL_PATTERNS",
                !.MIN_CONFLUENCE_CONFIRMATIONS = 2,
                !.ATR_ZONE_MULTIPLIER_X100 = 75]

use_original_settings(cfg) ==
    [cfg EXCEPT !.ENTRY_TIMING_METHOD = "IMMEDIATE",
                !.TREND_ANALYSIS_METHOD = "MA_ALIGNMENT",
                !.ZONE_SIZING_METHOD = "FIXED",
                !.PRICE_ACTION_METHOD = "BASIC_PATTERNS"]

\* trading_config as import leaves it: the module body ends by calling a preset
ImportConfig == use_aggressive_settings(ModuleLiterals)

\* the configurations a session can be in after applying presets
PresetConfigs ==
    {use_conservative_settings(ImportConfig), use_aggressive_settings(ImportConfig),
     use_balanced_settings(ImportConfig)}

(***************************************************************************)
(* Bounds of the model                                                     *)
(***************************************************************************)
MaxSignals == 2      \* bullish / bearish detector counts range over 0..MaxSignals
MaxAtr == 1          \* average true range ranges over 0..MaxAtr pips
MaxRejections == 2   \* rejection counts of a zone range over 0..MaxRejections
FarPips == 40        \* distance of a moving average that leaves the price outside its zone

ZoneNames == <<"fast_ma_zone", "slow_ma_zone", "trend_ma_zone">>
ZoneNameSet == {"fast_ma_zone", "slow_ma_zone", "trend_ma_zone"}
Biases == {"BULLISH", "BEARISH", "NEUTRAL"}
Strengths == {"WEAK", "MEDIUM", "STRONG"}
Qualities == {"LOW", "MEDIUM", "HIGH"}

(***************************************************************************)
(* TechnicalAnalysis (technical_analysis.py)                               *)
(***************************************************************************)
\* rolling(window=period).mean() of the true range: NaN until `period` rows
calculate_atr(df, period) ==
    IF df.len < period THEN NaN ELSE Num(df.tr)

is_price_in_zone(price, zone) ==
    zone.lower <= price /\ price <= zone.upper

NoZones == <<>>

\* latest['fast_ma'], latest['slow_ma'], latest['trend_ma'] by zone name
LatestMa(df, zone_name) ==
    CASE zone_name = "fast_ma_zone" -> df.fast_ma
      [] zone_name = "slow_ma_zone" -> df.slow_ma
      [] zone_name = "trend_ma_zone" -> df.trend_ma

\* TechnicalAnalysis.create_zones; pip_value makes zone_width_pips a price distance
ta_create_zones(df, zone_width_pips) ==
    IF df.len = 0
    THEN NoZones
    ELSE [n \in ZoneNameSet |->
            [center |-> LatestMa(df, n),
             upper |-> LatestMa(df, n) + zone_width_pips,
             lower |-> LatestMa(df, n) - zone_width_pips]]

\* touches and rejections of the last INTERACTION_LOOKBACK candles, per zone
get_zone_interaction(df) ==
    IF df.len < INTERACTION_LOOKBACK THEN <<>> ELSE df.interactions

calculate_volume_profile(df) ==
    IF df.volume = "none"
    THEN [has_volume |-> FALSE]
    ELSE [has_volume |-> TRUE,
          \* volume_ma is NaN below VOLUME_LOOKBACK rows; a comparison with NaN is False
          is_spike |-> (df.len >= VOLUME_LOOKBACK /\ df.volume = "spike")]

(***************************************************************************)
(* PriceAction.analyze_price_action_confluence (price_action.py)           *)
(***************************************************************************)
analyze_price_action_confluence(df) ==
    IF df.len = 0
    THEN [confluence_score |-> 0, signal |-> "NEUTRAL"]
    ELSE LET net_signals == df.bullish_signals - df.bearish_signals
             signal == IF net_signals >= 2 THEN "STRONG_BULLISH"
                       ELSE IF net_signals = 1 THEN "BULLISH"
                       ELSE IF net_signals = -1 THEN "BEARISH"
                       ELSE IF net_signals <= -2 THEN "STRONG_BEARISH"
                       ELSE "NEUTRAL"
         IN [confluence_score |-> Abs(net_signals), signal |-> signal]

(***************************************************************************)
(* ZoneTrader (zone_trader.py): the Signal Synthesizer                     *)
(***************************************************************************)
\* str.replace('STRONG_', '') on the two strings the branch admits
StripStrong(s) ==
    IF s = "STRONG_BULLISH" THEN "BULLISH" ELSE "BEARISH"

\* f'STRONG_{signal}' and f'WEAK_{signal}'
Prefixed(prefix, signal) ==
    CASE prefix = "STRONG_" /\ signal = "BULLISH" -> "STRONG_BULLISH"
      [] prefix = "STRONG_" /\ signal = "BEARISH" -> "STRONG_BEARISH"
      [] prefix = "STRONG_" /\ signal = "NO_SIGNAL" -> "STRONG_NO_SIGNAL"
      [] prefix = "WEAK_" /\ signal = "BULLISH" -> "WEAK_BULLISH"
      [] prefix = "WEAK_" /\ signal = "BEARISH" -> "WEAK_BEARISH"
      [] prefix = "WEAK_" /\ signal = "NO_SIGNAL" -> "WEAK_NO_SIGNAL"

ConfluenceBase(confluence) ==
    IF confluence.signal \in {"STRONG_BULLISH", "STRONG_BEARISH"}
    THEN [pts |-> 40, signal |-> StripStrong(confluence.signal)]
    ELSE IF confluence.signal \in {"BULLISH", "BEARISH"}
    THEN [pts |-> 20, signal |-> confluence.signal]
    ELSE [pts |-> 0, signal |-> "NO_SIGNAL"]

ZonePoints(in_zone, active_zones) ==
    IF in_zone
    THEN 15 * Cardinality({i \in DOMAIN active_zones :
                             active_zones[i] \in {"fast_ma_zone", "slow_ma_zone"}})
    ELSE 0

\* mutant: a counter-trend penalty of 5 points
TrendPoints_LightPenalty(signal, trend) ==
    IF trend.bias # "NEUTRAL"
    THEN IF (signal = "BULLISH" /\ trend.bias = "BULLISH")
            \/ (signal = "BEARISH" /\ trend.bias = "BEARISH")
         THEN (IF trend.strength = "STRONG" THEN 25 ELSE 15)
         ELSE -5
    ELSE 0

TrendPoints(signal, trend) ==
    IF trend.bias # "NEUTRAL"
    THEN IF (signal = "BULLISH" /\ trend.bias = "BULLISH")
            \/ (signal = "BEARISH" /\ trend.bias = "BEARISH")
         THEN (IF trend.strength = "STRONG" THEN 25 ELSE 15)
         ELSE -20
    ELSE 0

VolumePoints(volume_profile) ==
    IF "is_spike" \in DOMAIN volume_profile /\ volume_profile.is_spike THEN 10 ELSE 0

\* mutant: the STRONG threshold taken as strict
FinalSignal_StrictStrong(base_confidence, signal) ==
    IF base_confidence > 70 THEN Prefixed("STRONG_", signal)
    ELSE IF base_confidence >= 50 THEN signal
    ELSE IF base_confidence >= 30 THEN Prefixed("WEAK_", signal)
    ELSE "NO_SIGNAL"

FinalSignal(base_confidence, signal) ==
    IF base_confidence >= 70 THEN Prefixed("STRONG_", signal)
    ELSE IF base_confidence >= 50 THEN signal
    ELSE IF base_confidence >= 30 THEN Prefixed("WEAK_", signal)
    ELSE "NO_SIGNAL"

BaseConfidence(confluence, trend, in_zone, volume_profile, active_zones) ==
    ConfluenceBase(confluence).pts
    + ZonePoints(in_zone, active_zones)
    + TrendPoints(ConfluenceBase(confluence).signal, trend)
    + VolumePoints(volume_profile)

ClampConfidence(base_confidence) == Min(base_confidence, 100)

_calculate_signal_strength(confluence, trend, in_zone, volume_profile, active_zones) ==
    LET base_confidence ==
            BaseConfidence(confluence, trend, in_zone, volume_profile, active_zones)
    IN [signal |-> FinalSignal(base_confidence, ConfluenceBase(confluence).signal),
        confidence |-> ClampConfidence(base_confidence)]

_check_trend_alignment(confluence, trend) ==
    \/ (confluence.signal \in {"BULLISH", "STRONG_BULLISH"} /\ trend.bias = "BULLISH")
    \/ (confluence.signal \in {"BEARISH", "STRONG_BEARISH"} /\ trend.bias = "BEARISH")

HasNoSignal(signal) == signal \in {"NO_SIGNAL", "WEAK_NO_SIGNAL", "STRONG_NO_SIGNAL"}
HasBullish(signal) == signal \in {"BULLISH", "WEAK_BULLISH", "STRONG_BULLISH"}

\* Prices of the risk/reward record are in hundredths of a pip (RRScale per pip),
\* so that atr * 2.5 and atr * 1.7 * 2.5 are whole numbers.
RRScale == 10 * 10
StopDistance(atr) == atr * STOP_ATR_MULT_X10 * 10
TargetDistance(atr) == (atr * RISK_REWARD_RATIO_X10 * STOP_ATR_MULT_X10)

_calculate_risk_reward(df, signal) ==
    IF HasNoSignal(signal)
    THEN [stop_loss |-> None, take_profit |-> None, risk_reward |-> None]
    ELSE LET current_price == df.close * RRScale
             atr == calculate_atr(df, RR_ATR_PERIOD)
         IN IF ~IsNum(atr)
            THEN \* NaN propagates; `risk > 0` is False for NaN
                 [stop_loss |-> NaN, take_profit |-> NaN,
                  risk_reward |-> Ratio(0, 1),
                  risk_pips |-> NaN, reward_pips |-> NaN]
            ELSE LET stop_loss == IF HasBullish(signal)
                                  THEN current_price - StopDistance(atr.v)
                                  ELSE current_price + StopDistance(atr.v)
                     take_profit == IF HasBullish(signal)
                                    THEN current_price + TargetDistance(atr.v)
                                    ELSE current_price - TargetDistance(atr.v)
                     risk == Abs(current_price - stop_loss)
                     reward == Abs(take_profit - current_price)
                 IN [stop_loss |-> Num(stop_loss), take_profit |-> Num(take_profit),
                     \* reward / risk as a fraction; 0 when risk is not positive
                     risk_reward |-> IF risk > 0 THEN Ratio(reward, risk)
                                     ELSE Ratio(0, 1),
                     \* risk / 0.0001 and reward / 0.0001, in hundredths of a pip
                     risk_pips |-> Num(risk), reward_pips |-> Num(reward)]

\* mutant: one rejection is enough for the highest quality
_assess_zone_quality_OneRejection(touches, rejections) ==
    IF rejections >= 1 /\ touches >= MIN_ZONE_TOUCHES THEN "HIGH" ELSE "LOW"

_assess_zone_quality(touches, rejections) ==
    IF rejections >= 2 /\ touches >= MIN_ZONE_TOUCHES THEN "HIGH"
    ELSE IF rejections >= 1 /\ touches >= MIN_ZONE_TOUCHES THEN "MEDIUM"
    ELSE "LOW"

identify_zones(h4_data) ==
    IF h4_data.len = 0
    THEN NoZones
    ELSE LET zones == ta_create_zones(h4_data, ZONE_WIDTH_PIPS)
             zone_interactions == get_zone_interaction(h4_data)
             \* zone_interactions.get(key, 0)
             touches(n) == IF n \in DOMAIN zone_interactions
                           THEN zone_interactions[n].touches ELSE 0
             rejections(n) == IF n \in DOMAIN zone_interactions
                              THEN zone_interactions[n].rejections ELSE 0
         IN [n \in DOMAIN zones |->
               [center |-> zones[n].center, upper |-> zones[n].upper,
                lower |-> zones[n].lower,
                touches |-> touches(n), rejections |-> rejections(n),
                quality |-> _assess_zone_quality(touches(n), rejections(n))]]

\* the zones of HIGH or MEDIUM quality that hold the price, in dict order
ActiveZones(zs, price) ==
    SelectSeq(ZoneNames,
              LAMBDA n : /\ n \in DOMAIN zs
                         /\ zs[n].quality \in {"HIGH", "MEDIUM"}
                         /\ is_price_in_zone(price, zs[n]))

find_entry_signals(h1_data, zs, trend) ==
    IF h1_data.len = 0 \/ DOMAIN zs = {}
    THEN [signal |-> "NO_SIGNAL", details |-> <<>>]
    ELSE LET confluence == analyze_price_action_confluence(h1_data)
             current_price == h1_data.close
             active_zones == ActiveZones(zs, current_price)
             in_zone == Len(active_zones) > 0
             volume_profile == calculate_volume_profile(h1_data)
             signal_strength == _calculate_signal_strength(
                 confluence, trend, in_zone, volume_profile, active_zones)
         IN [signal |-> signal_strength.signal,
             confidence |-> signal_strength.confidence,
             entry_price |-> current_price,
             active_zones |-> active_zones,
             confluence |-> confluence,
             volume_profile |-> volume_profile,
             trend_alignment |-> _check_trend_alignment(confluence, trend),
             risk_reward |-> _calculate_risk_reward(h1_data, signal_strength.signal)]

(***************************************************************************)
(* Inputs of find_entry_signals                                            *)
(***************************************************************************)
EmptyDf ==
    [len |-> 0, close |-> 0, tr |-> 0, volume |-> "none",
     bullish_signals |-> 0, bearish_signals |-> 0]

H1Price == 100

H1Frames ==
    {EmptyDf} \cup
    [len : {RR_ATR_PERIOD - 1, VOLUME_LOOKBACK}, close : {H1Price}, tr : 0..MaxAtr,
     volume : {"none", "normal", "spike"},
     bullish_signals : 0..MaxSignals, bearish_signals : 0..MaxSignals]

\* touch / rejection counts on either side of each quality threshold
InteractionPairs ==
    {[touches |-> MIN_ZONE_TOUCHES, rejections |-> r] : r \in 0..MaxRejections}
    \cup {[touches |-> MIN_ZONE_TOUCHES - 1, rejections |-> MaxRejections]}

\* H4 series with moving averages at or away from the H1 price
H4Frames ==
    {[len |-> 0, fast_ma |-> 0, slow_ma |-> 0, trend_ma |-> 0, interactions |-> <<>>]}
    \cup
    { [len |-> l, fast_ma |-> cf, slow_ma |-> cs, trend_ma |-> H1Price,
       interactions |->
          [n \in ZoneNameSet |->
              CASE n = "fast_ma_zone" -> pf
                [] n = "slow_ma_zone" -> ps
                [] n = "trend_ma_zone" -> pt]] :
      l \in {INTERACTION_LOOKBACK - 1, INTERACTION_LOOKBACK},
      cf \in {H1Price, H1Price + FarPips}, cs \in {H1Price, H1Price + FarPips},
      pf \in InteractionPairs, ps \in InteractionPairs,
      pt \in {p \in InteractionPairs : p.rejections \in {0, MaxRejections}
                                        /\ p.touches = MIN_ZONE_TOUCHES} }

ZoneMaps == {identify_zones(h4_data) : h4_data \in H4Frames}

TrendBiases == [bias : Biases, strength : Strengths]

SynthCalls ==
    [op : {"find_entry_signals"}, h1_data : H1Frames, zones : ZoneMaps,
     trend_bias : TrendBiases]

FindEntrySignals ==
    /\ call.op = "find_entry_signals"
    /\ ret = Pending
    /\ ret' = Returned(find_entry_signals(call.h1_data, call.zones, call.trend_bias))
    /\ UNCHANGED <<call, tc, first, pc, requests>>

InitSynth ==
    /\ call \in SynthCalls
    /\ ret = Pending
    /\ tc = ImportConfig
    /\ first = NotYet
    /\ pc = "caller"
    /\ requests = <<>>
NextSynth == FindEntrySignals
SpecSynth == InitSynth /\ [][NextSynth]_vars

(***************************************************************************)
(* Claims about the Signal Synthesizer (SpecSynth)                         *)
(***************************************************************************)
SynthDone == call.op = "find_entry_signals" /\ ret.status = "returned"
SynthFull == SynthDone /\ "confidence" \in DOMAIN ret.value
SynthConfluence == analyze_price_action_confluence(call.h1_data)
SynthDirection ==
    IF SynthConfluence.signal \in {"BULLISH", "STRONG_BULLISH"} THEN "BULLISH"
    ELSE IF SynthConfluence.signal \in {"BEARISH", "STRONG_BEARISH"} THEN "BEARISH"
    ELSE "NONE"
\* the accumulated score of the call in progress
SynthScore ==
    LET active == ActiveZones(call.zones, call.h1_data.close)
    IN BaseConfidence(SynthConfluence, call.trend_bias, Len(active) > 0,
                      calculate_volume_profile(call.h1_data), active)

\* C1: every confidence returned by the Signal Synthesizer lies in 0..100, for
\* every combination of confluence, trend bias/strength, zone occupancy and volume.
C1_ConfidenceClamped ==
    SynthFull => (0 <= ret.value.confidence /\ ret.value.confidence <= 100)

\* C2: the final signal is always one of the seven documented strings.
C2_SignalInVocabulary ==
    SynthDone =>
        ret.value.signal \in {"NO_SIGNAL", "WEAK_BULLISH", "BULLISH", "STRONG_BULLISH",
                              "WEAK_BEARISH", "BEARISH", "STRONG_BEARISH"}

\* C3: with a directional confluence the score maps to the final signal by the
\* thresholds 70 / 50 / 30, always in the confluence direction.
C3_ThresholdMapping ==
    (SynthFull /\ SynthDirection # "NONE") =>
        ret.value.signal =
            (IF SynthScore >= 70
             THEN (IF SynthDirection = "BULLISH" THEN "STRONG_BULLISH" ELSE "STRONG_BEARISH")
             ELSE IF SynthScore >= 50 THEN SynthDirection
             ELSE IF SynthScore >= 30
             THEN (IF SynthDirection = "BULLISH" THEN "WEAK_BULLISH" ELSE "WEAK_BEARISH")
             ELSE "NO_SIGNAL")

C3_Witness ==
    /\ SynthFull
    /\ SynthDirection = "BEARISH"
    /\ SynthScore = 70
    /\ ret.value.signal = "STRONG_BEARISH"

ZScale == 100 * RRScale

ZoneMethods ==
    {"FIXED", "ATR_BASED", "VOLATILITY_ADAPTIVE", "TREND_ADAPTIVE",
     "MARKET_CONDITION", "COMPOSITE_ZONES"}

NoTrendData == [present |-> FALSE]
TrendData(bias, strength) == [present |-> TRUE, bias |-> bias, strength |-> strength]

\* ma_values of create_zones, keyed by the zone each one centres
MaValues(df) == [n \in ZoneNameSet |-> LatestMa(df, n) * ZScale]

_fixed_zones(df, ma_values, trend_data) ==
    LET zone_width == ZONE_WIDTH_PIPS * ZScale
    IN [n \in DOMAIN ma_values |->
          [center |-> ma_values[n],
           upper |-> ma_values[n] + zone_width,
           lower |-> ma_values[n] - zone_width,
           method |-> "FIXED"]]

\* len(df) >= 14 = ATR_PERIOD on this path, so the rolling mean is a number
_atr_based_zones(df, ma_values, trend_data) ==
    IF df.len < ATR_MIN_ROWS
    THEN _fixed_zones(df, ma_values, trend_data)
    ELSE LET latest_atr == calculate_atr(df, ATR_PERIOD).v
             zone_width == latest_atr * tc.ATR_ZONE_MULTIPLIER_X100 * (ZScale \div 100)
         IN [n \in DOMAIN ma_values |->
               [center |-> ma_values[n],
                upper |-> ma_values[n] + zone_width,
                lower |-> ma_values[n] - zone_width,
                method |-> "ATR_BASED"]]

\* a comparison with a NaN slope is False
_classify_volatility_regime(volatility_data) ==
    LET atr_percentile == volatility_data.atr_percentile_x10
        atr_slope == volatility_data.atr_slope
    IN IF atr_percentile > 8 \/ (atr_percentile > 6 /\ atr_slope = "pos")
       THEN "HIGH_VOLATILITY"
       ELSE IF atr_percentile < 2 \/ (atr_percentile < 4 /\ atr_slope = "neg")
       THEN "LOW_VOLATILITY"
       ELSE "NORMAL_VOLATILITY"

_calculate_volatility_metrics(df) ==
    [current_atr |-> calculate_atr(df, ATR_PERIOD).v,
     atr_slope |-> df.atr_slope,
     atr_percentile_x10 |-> Max(0, Min(10, df.atr_percentile_x10))]

_volatility_adaptive_zones(df, ma_values, trend_data) ==
    IF df.len < VOLATILITY_LOOKBACK
    THEN _atr_based_zones(df, ma_values, trend_data)
    ELSE LET volatility_data == _calculate_volatility_metrics(df)
             volatility_regime == _classify_volatility_regime(volatility_data)
             zone_multiplier ==
                 IF volatility_regime = "HIGH_VOLATILITY"
                 THEN HIGH_VOLATILITY_MULTIPLIER_X10
                 ELSE IF volatility_regime = "LOW_VOLATILITY"
                 THEN LOW_VOLATILITY_MULTIPLIER_X10
                 ELSE NORMAL_VOLATILITY_MULTIPLIER_X10
             zone_width == volatility_data.current_atr * zone_multiplier * (ZScale \div 10)
         IN [n \in DOMAIN ma_values |->
               [center |-> ma_values[n],
                upper |-> ma_values[n] + zone_width,
                lower |-> ma_values[n] - zone_width,
                method |-> "VOLATILITY_ADAPTIVE"]]

\* strength_multipliers.get(trend_strength, 1.0), in tenths
StrengthMultiplier(trend_strength) ==
    CASE trend_strength = "STRONG" -> STRONG_TREND_ZONE_MULTIPLIER_X10
      [] trend_strength = "MEDIUM" -> MEDIUM_TREND_ZONE_MULTIPLIER_X10
      [] trend_strength = "WEAK" -> WEAK_TREND_ZONE_MULTIPLIER_X10
      [] OTHER -> 10

\* mutant: the lower bound keeps the width it had before the trend adjustment
_trend_adaptive_zones_StaleLower(df, ma_values, trend_data) ==
    LET zones == _atr_based_zones(df, ma_values, trend_data)
        multiplier == StrengthMultiplier(trend_data.strength)
    IN IF ~trend_data.present
       THEN zones
       ELSE [n \in DOMAIN zones |->
               LET original_width == zones[n].upper - zones[n].center
                   new_width == (original_width * multiplier) \div 10
               IN [center |-> zones[n].center,
                   upper |-> zones[n].center + new_width,
                   lower |-> zones[n].lower,
                   method |-> "TREND_ADAPTIVE"]]

_trend_adaptive_zones(df, ma_values, trend_data) ==
    LET zones == _atr_based_zones(df, ma_values, trend_data)
        multiplier == StrengthMultiplier(trend_data.strength)
    IN IF ~trend_data.present
       THEN zones
       ELSE [n \in DOMAIN zones |->
               LET original_width == zones[n].upper - zones[n].center
                   new_width == (original_width * multiplier) \div 10
               IN [center |-> zones[n].center,
                   upper |-> zones[n].center + new_width,
                   lower |-> zones[n].center - new_width,
                   method |-> "TREND_ADAPTIVE"]]

_classify_market_condition(df) ==
    IF df.efficiency_x10 > TRENDING_EFFICIENCY_THRESHOLD_X10
       /\ df.r_squared_x10 > TRENDING_R_SQUARED_THRESHOLD_X10
    THEN "TRENDING"
    ELSE IF df.efficiency_x10 < RANGING_EFFICIENCY_THRESHOLD_X10
    THEN "RANGING"
    ELSE "MIXED"

_market_condition_zones(df, ma_values, trend_data) ==
    IF df.len < MARKET_CONDITION_LOOKBACK
    THEN _trend_adaptive_zones(df, ma_values, trend_data)
    ELSE LET market_condition == _classify_market_condition(df)
             zones == _atr_based_zones(df, ma_values, trend_data)
             multiplier == IF market_condition = "TRENDING"
                           THEN TRENDING_MARKET_MULTIPLIER_X10
                           ELSE IF market_condition = "RANGING"
                           THEN RANGING_MARKET_MULTIPLIER_X10
                           ELSE MIXED_MARKET_MULTIPLIER_X10
         IN [n \in DOMAIN zones |->
               LET original_width == zones[n].upper - zones[n].center
                   new_width == (original_width * multiplier) \div 10
               IN [center |-> zones[n].center,
                   upper |-> zones[n].center + new_width,
                   lower |-> zones[n].center - new_width,
                   method |-> "MARKET_CONDITION"]]

_composite_zones(df, ma_values, trend_data) ==
    LET atr_zones == _atr_based_zones(df, ma_values, trend_data)
        volatility_zones == _volatility_adaptive_zones(df, ma_values, trend_data)
        market_zones == IF df.len >= MARKET_CONDITION_LOOKBACK
                        THEN _market_condition_zones(df, ma_values, trend_data)
                        ELSE atr_zones
        weights == COMPOSITE_ZONE_WEIGHTS
    IN [n \in DOMAIN ma_values |->
          LET atr_width == atr_zones[n].upper - atr_zones[n].center
              vol_width == volatility_zones[n].upper - volatility_zones[n].center
              market_width == market_zones[n].upper - market_zones[n].center
              composite_width ==
                  (atr_width * weights.atr + vol_width * weights.volatility
                   + market_width * weights.market_condition)
                  \div (weights.atr + weights.volatility + weights.market_condition)
          IN [center |-> ma_values[n],
              upper |-> ma_values[n] + composite_width,
              lower |-> ma_values[n] - composite_width,
              method |-> "COMPOSITE_ZONES"]]

\* touches and rejections of the last ZONE_METADATA_LOOKBACK candles
_calculate_zone_metadata(df, zone_data) ==
    IF df.len < ZONE_METADATA_LOOKBACK
    THEN [touches |-> 0, rejections |-> 0, quality |-> "LOW"]
    ELSE [touches |-> df.touches, rejections |-> df.rejections,
          quality |-> IF df.rejections >= 2 /\ df.touches >= MIN_ZONE_TOUCHES
                      THEN "HIGH"
                      ELSE IF df.rejections >= 1 /\ df.touches >= MIN_ZONE_TOUCHES
                      THEN "MEDIUM"
                      ELSE "LOW"]

\* self.zone_methods[method](df, ma_values, trend_data)
ZoneMethod(method, df, ma_values, trend_data) ==
    CASE method = "FIXED" -> _fixed_zones(df, ma_values, trend_data)
      [] method = "ATR_BASED" -> _atr_based_zones(df, ma_values, trend_data)
      [] method = "VOLATILITY_ADAPTIVE" -> _volatility_adaptive_zones(df, ma_values, trend_data)
      [] method = "TREND_ADAPTIVE" -> _trend_adaptive_zones(df, ma_values, trend_data)
      [] method = "MARKET_CONDITION" -> _market_condition_zones(df, ma_values, trend_data)
      [] method = "COMPOSITE_ZONES" -> _composite_zones(df, ma_values, trend_data)

\* np.polyfit over a window of the ATR series that still holds NaN rows either
\* yields NaN coefficients or raises LinAlgError, depending on the LAPACK build
PolyfitRaises(df, method) ==
    /\ method \in {"VOLATILITY_ADAPTIVE", "COMPOSITE_ZONES"}
    /\ df.len >= VOLATILITY_LOOKBACK
    /\ df.atr_slope = "raise"

\* mutant: the empty series is answered before the method name is looked up
create_zones_EmptyFirst(df, method, trend_data) ==
    IF df.len = 0 THEN Returned(NoZones)
    ELSE IF method \notin ZoneMethods
    THEN Raised("ValueError", "Unknown zone method")
    ELSE IF PolyfitRaises(df, method)
    THEN Raised("LinAlgError", "SVD did not converge")
    ELSE LET zones == ZoneMethod(method, df, MaValues(df), trend_data)
         IN Returned([n \in DOMAIN zones |->
                [center |-> zones[n].center, upper |-> zones[n].upper,
                 lower |-> zones[n].lower, method |-> zones[n].method,
                 touches |-> _calculate_zone_metadata(df, zones[n]).touches,
                 rejections |-> _calculate_zone_metadata(df, zones[n]).rejections,
                 quality |-> _calculate_zone_metadata(df, zones[n]).quality]])

create_zones(df, method, trend_data) ==
    IF method \notin ZoneMethods
    THEN Raised("ValueError", "Unknown zone method")
    ELSE IF df.len = 0 THEN Returned(NoZones)
    ELSE IF PolyfitRaises(df, method)
    THEN Raised("LinAlgError", "SVD did not converge")
    ELSE LET zones == ZoneMethod(method, df, MaValues(df), trend_data)
         IN Returned([n \in DOMAIN zones |->
                [center |-> zones[n].center, upper |-> zones[n].upper,
                 lower |-> zones[n].lower, method |-> zones[n].method,
                 touches |-> _calculate_zone_metadata(df, zones[n]).touches,
                 rejections |-> _calculate_zone_metadata(df, zones[n]).rejections,
                 quality |-> _calculate_zone_metadata(df, zones[n]).quality]])

(***************************************************************************)
(* Inputs of the Zone Builder                                              *)
(***************************************************************************)
FastMa == 120
SlowMa == 110
TrendMa == 90

\* rejections are counted among the touching candles
MetaPairs ==
    {p \in InteractionPairs : p.rejections <= p.touches}
    \cup {[touches |-> MIN_ZONE_TOUCHES - 1, rejections |-> MIN_ZONE_TOUCHES - 1]}

DzFrame(len, tr, pct, slope, eff, r2, meta) ==
    [len |-> len, fast_ma |-> FastMa, slow_ma |-> SlowMa, trend_ma |-> TrendMa,
     tr |-> tr, atr_percentile_x10 |-> pct, atr_slope |-> slope,
     efficiency_x10 |-> eff, r_squared_x10 |-> r2,
     touches |-> meta.touches, rejections |-> meta.rejections]

NoMeta == [touches |-> 0, rejections |-> 0]

\* the first length whose last VOLATILITY_LOOKBACK ATR values are all numbers
FullAtrWindow == VOLATILITY_LOOKBACK + ATR_PERIOD - 1

DzFrames ==
    {DzFrame(0, 0, 0, "nan", 0, 0, NoMeta)}
    \cup {DzFrame(l, tr, 0, "nan", 0, 0, NoMeta) :
             l \in {ATR_MIN_ROWS - 1, ATR_MIN_ROWS}, tr \in 0..MaxAtr}
    \cup {DzFrame(VOLATILITY_LOOKBACK, tr, pct, slope, 0, 0, meta) :
             tr \in 0..MaxAtr, pct \in {1, 3, 7, 9}, slope \in {"nan", "raise"},
             meta \in MetaPairs}
    \cup {DzFrame(MARKET_CONDITION_LOOKBACK, tr, pct, slope, eff, r2, meta) :
             tr \in 0..MaxAtr, pct \in {1, 7}, slope \in {"nan", "raise"},
             eff \in {2, 5, 7}, r2 \in {4, 6}, meta \in MetaPairs}
    \cup {DzFrame(FullAtrWindow, tr, pct, slope, eff, r2, meta) :
             tr \in 0..MaxAtr, pct \in {1, 3, 7, 9}, slope \in {"pos", "neg"},
             eff \in {2, 7}, r2 \in {4, 6}, meta \in MetaPairs}

TrendDataArgs ==
    {NoTrendData} \cup {TrendData("BULLISH", st) : st \in Strengths}

ZoneCalls ==
    [op : {"DynamicZones.create_zones"}, df : DzFrames,
     method : ZoneMethods \cup {"UNKNOWN"}, trend_data : TrendDataArgs]

TaZoneCalls ==
    [op : {"TechnicalAnalysis.create_zones"}, df : H4Frames,
     zone_width_pips : {ZONE_WIDTH_PIPS}]

DynamicCreateZones ==
    /\ call.op = "DynamicZones.create_zones"
    /\ ret = Pending
    /\ ret' = create_zones(call.df, call.method, call.trend_data)
    /\ UNCHANGED <<call, tc, first, pc, requests>>

TaCreateZones ==
    /\ call.op = "TechnicalAnalysis.create_zones"
    /\ ret = Pending
    /\ ret' = Returned(ta_create_zones(call.df, call.zone_width_pips))
    /\ UNCHANGED <<call, tc, first, pc, requests>>

(***************************************************************************)
(* EnhancedTrendAnalysis (enhanced_trend_analysis.py): the Trend           *)
(* Classifier                                                              *)
(*                                                                         *)
(* Confidences are in thirds of a point (ConfScale per point), so that     *)
(* 40 + (score / 3) * 40 is a whole number.  The series record carries the *)
(* latest close and moving averages, the class of each normalised slope,   *)
(* the swing structure, and the latest ROC (percent), RSI and momentum     *)
(* (tenths of a pip).                                                      *)
(***************************************************************************)
ConfScale == 3

TrendMethods ==
    {"MA_ALIGNMENT", "SLOPE_ANALYSIS", "MARKET_STRUCTURE", "MOMENTUM_TREND",
     "MULTI_TIMEFRAME", "COMPOSITE_TREND"}

\* dict.update: the keys of `more` are added to or replace those of `base`
Update(base, more) ==
    [k \in DOMAIN base \cup DOMAIN more |->
        IF k \in DOMAIN more THEN more[k] ELSE base[k]]

_neutral_trend ==
    [bias |-> "NEUTRAL", strength |-> "WEAK", confidence |-> 30 * ConfScale]

\* the columns a method looks up on the series, in the order of its lookups
ColumnsRead(method) ==
    CASE method = "MA_ALIGNMENT" -> <<"fast_ma", "slow_ma", "close", "trend_ma">>
      [] method = "SLOPE_ANALYSIS" ->
             <<"fast_ma", "slow_ma", "trend_ma", "close", "high", "low">>
      [] method = "MARKET_STRUCTURE" -> <<"high", "low">>
      [] method = "MOMENTUM_TREND" -> <<"close">>
      [] method = "_calculate_trend_metrics" ->
             <<"fast_ma", "slow_ma", "close", "trend_ma", "high", "low">>

\* the number of rows below which a method returns before any lookup
RowsBeforeLookup(method) ==
    CASE method = "MA_ALIGNMENT" -> TREND_MA_PERIOD
      [] method = "SLOPE_ANALYSIS" -> SLOPE_LOOKBACK
      [] method = "MARKET_STRUCTURE" -> STRUCTURE_LOOKBACK
      [] method = "MOMENTUM_TREND" -> MOMENTUM_LOOKBACK
      [] method = "_calculate_trend_metrics" -> 1

\* the column whose lookup raises KeyError in `method`: the first one it
\* reads that the series does not have ("" when every lookup succeeds)
KeyErrorIn(method, df) ==
    LET reads == ColumnsRead(method)
        absent == {i \in DOMAIN reads : reads[i] \in df.missing}
    IN IF df.len < RowsBeforeLookup(method) \/ absent = {}
       THEN ""
       ELSE reads[CHOOSE i \in absent : \A j \in absent : i <= j]

\* min(40 + (score / max_score) * 40, 85) with max_score = 3
\* mutant: the alignment confidence starts ten points lower
_calculate_ma_confidence_FromThirty(score) ==
    Min(30 * ConfScale + score * 40, 85 * ConfScale)

_calculate_ma_confidence(score) ==
    Min(40 * ConfScale + score * 40, 85 * ConfScale)

_calculate_slope_confidence(bullish_slopes, bearish_slopes) ==
    Min(40 + Max(bullish_slopes, bearish_slopes) * 15, 90) * ConfScale

\* mutant: the bias needs all three comparisons to agree
MaAlignment_Unanimous(df) ==
    LET fast_above_slow == df.fast_ma > df.slow_ma
        price_above_trend == df.close > df.trend_ma
        slow_above_trend == df.slow_ma > df.trend_ma
        alignment_score == (IF fast_above_slow THEN 1 ELSE 0)
                           + (IF price_above_trend THEN 1 ELSE 0)
                           + (IF slow_above_trend THEN 1 ELSE 0)
    IN [method |-> "MA_ALIGNMENT",
        bias |-> IF alignment_score = 3 THEN "BULLISH"
                 ELSE IF alignment_score = 0 THEN "BEARISH" ELSE "NEUTRAL",
        strength |-> IF alignment_score \in {0, 3} THEN "STRONG" ELSE "WEAK",
        confidence |-> _calculate_ma_confidence(alignment_score),
        alignment_score |-> alignment_score]

\* the alignment branch of _ma_alignment_trend
MaAlignment(df) ==
    LET fast_above_slow == df.fast_ma > df.slow_ma
        price_above_trend == df.close > df.trend_ma
        slow_above_trend == df.slow_ma > df.trend_ma
        alignment_score == (IF fast_above_slow THEN 1 ELSE 0)
                           + (IF price_above_trend THEN 1 ELSE 0)
                           + (IF slow_above_trend THEN 1 ELSE 0)
        bear_score == (IF ~fast_above_slow THEN 1 ELSE 0)
                      + (IF ~price_above_trend THEN 1 ELSE 0)
                      + (IF ~slow_above_trend THEN 1 ELSE 0)
        bias == IF alignment_score >= 2 THEN "BULLISH"
                ELSE IF alignment_score <= 1
                THEN (IF bear_score >= 2 THEN "BEARISH" ELSE "NEUTRAL")
                ELSE "NEUTRAL"
        strength == IF alignment_score >= 2
                    THEN (IF alignment_score = 3 THEN "STRONG" ELSE "MEDIUM")
                    ELSE IF alignment_score <= 1 /\ bear_score >= 2
                    THEN (IF bear_score = 3 THEN "STRONG" ELSE "MEDIUM")
                    ELSE "WEAK"
    IN [method |-> "MA_ALIGNMENT", bias |-> bias, strength |-> strength,
        confidence |-> _calculate_ma_confidence(alignment_score),
        alignment_score |-> alignment_score]

\* mutant: only the empty series is treated as too short
_ma_alignment_trend_EmptyOnly(df) ==
    IF df.len = 0 THEN _neutral_trend ELSE MaAlignment(df)

_ma_alignment_trend(df) ==
    IF df.len = 0 \/ df.len < TREND_MA_PERIOD
    THEN _neutral_trend
    ELSE MaAlignment(df)

SlopeNames == {"fast_ma", "slow_ma", "trend_ma", "price"}

\* the columns add_moving_averages writes
MaColumns == {"fast_ma", "slow_ma", "trend_ma"}

_slope_analysis_trend(df) ==
    IF df.len < SLOPE_LOOKBACK
    THEN _neutral_trend
    ELSE LET bullish_slopes == Cardinality({k \in SlopeNames : df.slopes[k] = "up"})
             bearish_slopes == Cardinality({k \in SlopeNames : df.slopes[k] = "down"})
             bias == IF bullish_slopes >= 3 THEN "BULLISH"
                     ELSE IF bearish_slopes >= 3 THEN "BEARISH" ELSE "NEUTRAL"
             strength == IF bullish_slopes >= 3
                         THEN (IF bullish_slopes = 4 THEN "STRONG" ELSE "MEDIUM")
                         ELSE IF bearish_slopes >= 3
                         THEN (IF bearish_slopes = 4 THEN "STRONG" ELSE "MEDIUM")
                         ELSE "WEAK"
         IN [method |-> "SLOPE_ANALYSIS", bias |-> bias, strength |-> strength,
             confidence |-> _calculate_slope_confidence(bullish_slopes, bearish_slopes),
             bullish_slopes |-> bullish_slopes, bearish_slopes |-> bearish_slopes]

\* df.structure: the relation of the last two swing highs and swing lows
_analyze_market_structure(structure) ==
    IF structure.swing_highs < 2 \/ structure.swing_lows < 2
    THEN [bias |-> "NEUTRAL", strength |-> "WEAK", confidence |-> 30 * ConfScale]
    ELSE LET higher_highs == structure.highs = "higher"
             higher_lows == structure.lows = "higher"
             lower_highs == structure.highs = "lower"
             lower_lows == structure.lows = "lower"
         IN IF higher_highs /\ higher_lows
            THEN [bias |-> "BULLISH", strength |-> "STRONG", confidence |-> 80 * ConfScale]
            ELSE IF higher_highs \/ higher_lows
            THEN [bias |-> "BULLISH", strength |-> "MEDIUM", confidence |-> 65 * ConfScale]
            ELSE IF lower_highs /\ lower_lows
            THEN [bias |-> "BEARISH", strength |-> "STRONG", confidence |-> 80 * ConfScale]
            ELSE IF lower_highs \/ lower_lows
            THEN [bias |-> "BEARISH", strength |-> "MEDIUM", confidence |-> 65 * ConfScale]
            ELSE [bias |-> "NEUTRAL", strength |-> "WEAK", confidence |-> 40 * ConfScale]

_market_structure_trend(df) ==
    IF df.len < STRUCTURE_LOOKBACK
    THEN _neutral_trend
    ELSE LET structure_analysis == _analyze_market_structure(df.structure)
         IN [method |-> "MARKET_STRUCTURE", bias |-> structure_analysis.bias,
             strength |-> structure_analysis.strength,
             confidence |-> structure_analysis.confidence]

_momentum_trend(df) ==
    IF df.len < MOMENTUM_LOOKBACK
    THEN _neutral_trend
    ELSE LET roc_points == IF df.roc > ROC_BULLISH_THRESHOLD THEN 2
                           ELSE IF df.roc > 0 THEN 1
                           ELSE IF df.roc < ROC_BEARISH_THRESHOLD THEN -2
                           ELSE IF df.roc < 0 THEN -1 ELSE 0
             rsi_points == IF df.rsi > 60 THEN 1 ELSE IF df.rsi < 40 THEN -1 ELSE 0
             momentum_points == IF df.momentum_x10 > MOMENTUM_THRESHOLD_X10 THEN 1
                                ELSE IF df.momentum_x10 < -MOMENTUM_THRESHOLD_X10 THEN -1
                                ELSE 0
             momentum_score == roc_points + rsi_points + momentum_points
             bias == IF momentum_score >= 1 THEN "BULLISH"
                     ELSE IF momentum_score <= -1 THEN "BEARISH" ELSE "NEUTRAL"
             strength == IF momentum_score >= 3 THEN "STRONG"
                         ELSE IF momentum_score >= 1
                         THEN (IF momentum_score >= 2 THEN "MEDIUM" ELSE "WEAK")
                         ELSE IF momentum_score <= -3 THEN "STRONG"
                         ELSE IF momentum_score <= -1
                         THEN (IF momentum_score <= -2 THEN "MEDIUM" ELSE "WEAK")
                         ELSE "WEAK"
         IN [method |-> "MOMENTUM_TREND", bias |-> bias, strength |-> strength,
             confidence |-> Min(Abs(momentum_score) * 15 + 40, 90) * ConfScale,
             momentum_score |-> momentum_score]

\* mtf_data of None or {} is falsy; otherwise a map from timeframe to series
NoMtf == <<>>
TimeframeOrder == <<"daily", "h4", "h1">>

\* the timeframes analysed: tf_data is not None and not tf_data.empty
TimeframeTrends(mtf_data) ==
    [tf \in {t \in DOMAIN mtf_data : mtf_data[t].len > 0} |->
        _ma_alignment_trend(mtf_data[tf])]

\* weight * confidence, signed by the bias, of one timeframe (0 when absent)
WeightedTerm(timeframe_trends, tf) ==
    IF tf \notin DOMAIN timeframe_trends THEN 0
    ELSE IF timeframe_trends[tf].bias = "BULLISH"
    THEN TIMEFRAME_WEIGHTS[tf] * timeframe_trends[tf].confidence
    ELSE IF timeframe_trends[tf].bias = "BEARISH"
    THEN -(TIMEFRAME_WEIGHTS[tf] * timeframe_trends[tf].confidence)
    ELSE 0

WeightTerm(timeframe_trends, tf) ==
    IF tf \in DOMAIN timeframe_trends THEN TIMEFRAME_WEIGHTS[tf] ELSE 0

\* weighted_score = score_sum / (100 * ConfScale * total_weight); the
\* comparisons with the thresholds are cross-multiplied, and the confidence
\* abs(weighted_score) * 100 + 40 is rounded down to a third of a point
_multi_timeframe_trend(df, mtf_data) ==
    IF DOMAIN mtf_data = {}
    THEN _ma_alignment_trend(df)
    ELSE LET timeframe_trends == TimeframeTrends(mtf_data)
             score_sum == WeightedTerm(timeframe_trends, "daily")
                          + WeightedTerm(timeframe_trends, "h4")
                          + WeightedTerm(timeframe_trends, "h1")
             total_weight == WeightTerm(timeframe_trends, "daily")
                             + WeightTerm(timeframe_trends, "h4")
                             + WeightTerm(timeframe_trends, "h1")
             divisor == IF total_weight > 0 THEN total_weight ELSE 1
             bullish == score_sum > MTF_BULLISH_THRESHOLD_X100 * ConfScale * divisor
             bearish == score_sum < MTF_BEARISH_THRESHOLD_X100 * ConfScale * divisor
             bias == IF bullish THEN "BULLISH" ELSE IF bearish THEN "BEARISH"
                     ELSE "NEUTRAL"
             strength ==
                 IF bullish
                 THEN (IF score_sum > MTF_STRONG_THRESHOLD_X100 * ConfScale * divisor
                       THEN "STRONG" ELSE "MEDIUM")
                 ELSE IF bearish
                 THEN (IF score_sum < -(MTF_STRONG_THRESHOLD_X100 * ConfScale * divisor)
                       THEN "STRONG" ELSE "MEDIUM")
                 ELSE "WEAK"
         IN [method |-> "MULTI_TIMEFRAME", bias |-> bias, strength |-> strength,
             confidence |-> Min((Abs(score_sum) \div divisor) + 40 * ConfScale,
                                95 * ConfScale),
             timeframes |-> DOMAIN timeframe_trends]

\* mtf_data of None or {} is falsy; otherwise a map from timeframe to series
\* (TimeframeOrder is the order of its items)
MethodKeyError(method, df, mtf_data) ==
    IF method = "COMPOSITE_TREND"
    THEN ""
    ELSE IF method # "MULTI_TIMEFRAME"
    THEN KeyErrorIn(method, df)
    ELSE IF DOMAIN mtf_data = {}
    THEN KeyErrorIn("MA_ALIGNMENT", df)
    ELSE LET failing == {i \in DOMAIN TimeframeOrder :
                            /\ TimeframeOrder[i] \in DOMAIN mtf_data
                            /\ KeyErrorIn("MA_ALIGNMENT", mtf_data[TimeframeOrder[i]]) # ""}
         IN IF failing = {}
            THEN ""
            ELSE KeyErrorIn("MA_ALIGNMENT",
                            mtf_data[TimeframeOrder[CHOOSE i \in failing :
                                                        \A j \in failing : i <= j]])

\* `methods` of _composite_trend
CompositeMethods(mtf_data) ==
    <<"MA_ALIGNMENT", "SLOPE_ANALYSIS", "MOMENTUM_TREND">>
    \o (IF DOMAIN mtf_data # {} THEN <<"MULTI_TIMEFRAME">> ELSE <<>>)

\* self.trend_methods[method](df, mtf_data) for a method of the composite
ComponentResult(method, df, mtf_data) ==
    CASE method = "MA_ALIGNMENT" -> _ma_alignment_trend(df)
      [] method = "SLOPE_ANALYSIS" -> _slope_analysis_trend(df)
      [] method = "MOMENTUM_TREND" -> _momentum_trend(df)
      [] method = "MULTI_TIMEFRAME" -> _multi_timeframe_trend(df, mtf_data)

RECURSIVE TryEach(_, _, _)
\* the loop of _composite_trend: the result of each method in turn is
\* appended to trend_results, a method that raises is caught and skipped
TryEach(methods, df, mtf_data) ==
    IF methods = <<>>
    THEN <<>>
    ELSE (IF MethodKeyError(Head(methods), df, mtf_data) # ""
          THEN <<>>
          ELSE <<ComponentResult(Head(methods), df, mtf_data)>>)
         \o TryEach(Tail(methods), df, mtf_data)

\* the component results of _composite_trend, in the order of `methods`
CompositeResults(df, mtf_data) ==
    TryEach(CompositeMethods(mtf_data), df, mtf_data)

Votes(trend_results, bias) ==
    Cardinality({i \in DOMAIN trend_results : trend_results[i].bias = bias})

RECURSIVE WeightedVotes(_, _)
\* sum(r['confidence'] for r in trend_results if r['bias'] == bias)
WeightedVotes(trend_results, bias) ==
    IF trend_results = <<>> THEN 0
    ELSE (IF Head(trend_results).bias = bias THEN Head(trend_results).confidence ELSE 0)
         + WeightedVotes(Tail(trend_results), bias)

\* min(int(weighted / votes), 95), or min(int(50), 95) without votes
CompositeConfidence(weighted, votes) ==
    IF votes > 0
    THEN Min(weighted \div (ConfScale * votes), 95) * ConfScale
    ELSE 50 * ConfScale

\* the vote of _composite_trend over the results collected
CompositeVote(trend_results) ==
    LET bullish_votes == Votes(trend_results, "BULLISH")
        bearish_votes == Votes(trend_results, "BEARISH")
        weighted_bullish == WeightedVotes(trend_results, "BULLISH")
        weighted_bearish == WeightedVotes(trend_results, "BEARISH")
    IN IF bullish_votes > bearish_votes \/ weighted_bullish > weighted_bearish
       THEN [method |-> "COMPOSITE_TREND", bias |-> "BULLISH",
             strength |-> IF bullish_votes >= 3 THEN "STRONG" ELSE "MEDIUM",
             confidence |-> CompositeConfidence(weighted_bullish, bullish_votes),
             component_results |-> trend_results,
             bullish_votes |-> bullish_votes, bearish_votes |-> bearish_votes]
       ELSE IF bearish_votes > bullish_votes \/ weighted_bearish > weighted_bullish
       THEN [method |-> "COMPOSITE_TREND", bias |-> "BEARISH",
             strength |-> IF bearish_votes >= 3 THEN "STRONG" ELSE "MEDIUM",
             confidence |-> CompositeConfidence(weighted_bearish, bearish_votes),
             component_results |-> trend_results,
             bullish_votes |-> bullish_votes, bearish_votes |-> bearish_votes]
       ELSE [method |-> "COMPOSITE_TREND", bias |-> "NEUTRAL", strength |-> "WEAK",
             confidence |-> Min(40, 95) * ConfScale,
             component_results |-> trend_results,
             bullish_votes |-> bullish_votes, bearish_votes |-> bearish_votes]

\* mutant: one failing component abandons the vote
_composite_trend_AbandonsOnError(df, mtf_data) ==
    LET trend_results == CompositeResults(df, mtf_data)
    IN IF Len(trend_results) < Len(CompositeMethods(mtf_data))
       THEN _neutral_trend
       ELSE CompositeVote(trend_results)

_composite_trend(df, mtf_data) ==
    LET trend_results == CompositeResults(df, mtf_data)
    IN IF trend_results = <<>>
       THEN _neutral_trend
       ELSE CompositeVote(trend_results)

\* the rolling(14) mean of high - low is NaN below 14 rows; `atr > 0` is then False
_calculate_trend_metrics(df) ==
    IF df.len = 0
    THEN <<>>
    ELSE LET atr == IF df.len < ATR_PERIOD THEN NaN ELSE Num(df.range_atr)
         IN [current_price |-> df.close, fast_ma |-> df.fast_ma,
             slow_ma |-> df.slow_ma, trend_ma |-> df.trend_ma, atr |-> atr,
             ma_separation |-> IF IsNum(atr) /\ atr.v > 0
                               THEN Ratio(Abs(df.fast_ma - df.slow_ma), atr.v)
                               ELSE Ratio(0, 1)]

\* self.trend_methods[method](df, mtf_data)
TrendMethod(method, df, mtf_data) ==
    CASE method = "MA_ALIGNMENT" -> _ma_alignment_trend(df)
      [] method = "SLOPE_ANALYSIS" -> _slope_analysis_trend(df)
      [] method = "MARKET_STRUCTURE" -> _market_structure_trend(df)
      [] method = "MOMENTUM_TREND" -> _momentum_trend(df)
      [] method = "MULTI_TIMEFRAME" -> _multi_timeframe_trend(df, mtf_data)
      [] method = "COMPOSITE_TREND" -> _composite_trend(df, mtf_data)

get_trend_analysis(df, method, mtf_data) ==
    IF method \notin TrendMethods
    THEN Raised("ValueError", "Unknown trend method")
    ELSE IF MethodKeyError(method, df, mtf_data) # ""
    THEN Raised("KeyError", MethodKeyError(method, df, mtf_data))
    ELSE IF KeyErrorIn("_calculate_trend_metrics", df) # ""
    THEN Raised("KeyError", KeyErrorIn("_calculate_trend_metrics", df))
    ELSE Returned(Update(TrendMethod(method, df, mtf_data),
                         _calculate_trend_metrics(df)))

(***************************************************************************)
(* Inputs of the Trend Classifier                                          *)
(***************************************************************************)
FlatSlopes == [k \in SlopeNames |-> "flat"]

\* the three moving-average slopes of one class, the price slope of another
SlopeProfiles ==
    {[k \in SlopeNames |-> IF k = "price" THEN b ELSE a] :
        a \in {"up", "down", "flat"}, b \in {"up", "down", "flat"}}

NoStructure == [swing_highs |-> 0, swing_lows |-> 0, highs |-> "equal", lows |-> "equal"]

StructureProfiles ==
    {NoStructure}
    \cup {[swing_highs |-> 2, swing_lows |-> 2, highs |-> h, lows |-> l] :
            h \in {"higher", "lower", "equal"}, l \in {"higher", "lower", "equal"}}

NoMomentum == [roc |-> 0, rsi |-> 50, momentum_x10 |-> 0]

MomentumProfiles ==
    [roc : {-3, -1, 0, 3}, rsi : {30, 50, 70}, momentum_x10 : {-10, 10}]

\* close and moving averages on either side of one another
MaProfiles ==
    {[close |-> c, fast_ma |-> sl + d, slow_ma |-> sl, trend_ma |-> H1Price] :
        c \in {H1Price - 5, H1Price + 5}, sl \in {H1Price - 10, H1Price + 10},
        d \in {-5, 5}}

FlatMa == [close |-> H1Price, fast_ma |-> H1Price, slow_ma |-> H1Price, trend_ma |-> H1Price]

\* the latest row of a steadily rising series: the close leads the fast
\* average, which leads the slow one, which leads the trend average
RisingMa ==
    [close |-> H1Price + 20, fast_ma |-> H1Price + 15, slow_ma |-> H1Price + 10,
     trend_ma |-> H1Price]

TrFrame(len, ma, slopes, structure, momentum, range_atr) ==
    [len |-> len, close |-> ma.close, fast_ma |-> ma.fast_ma, slow_ma |-> ma.slow_ma,
     trend_ma |-> ma.trend_ma, slopes |-> slopes, structure |-> structure,
     roc |-> momentum.roc, rsi |-> momentum.rsi, momentum_x10 |-> momentum.momentum_x10,
     range_atr |-> range_atr, missing |-> {}]

EmptyTrFrame == TrFrame(0, FlatMa, FlatSlopes, NoStructure, NoMomentum, 0)

\* what a series too short for a method still shows in its latest rows
ShortTrFrames ==
    {TrFrame(l, ma, FlatSlopes, NoStructure, NoMomentum, 0) :
        l \in {1, ATR_PERIOD - 1, SLOPE_LOOKBACK - 1},
        ma \in {m \in MaProfiles : m.fast_ma > m.slow_ma}}

TrFrames ==
    {EmptyTrFrame} \cup ShortTrFrames
    \cup {TrFrame(SLOPE_LOOKBACK, FlatMa, sl, NoStructure, NoMomentum, a) :
            sl \in SlopeProfiles, a \in 0..MaxAtr}
    \cup {TrFrame(MOMENTUM_LOOKBACK, FlatMa, sl, NoStructure, mo, 1) :
            sl \in {p \in SlopeProfiles : p["price"] = "flat"}, mo \in MomentumProfiles}
    \cup {TrFrame(STRUCTURE_LOOKBACK, FlatMa, FlatSlopes, st, NoMomentum, 1) :
            st \in StructureProfiles}
    \cup {TrFrame(TREND_MA_PERIOD, ma, sl, NoStructure, mo, 1) :
            ma \in MaProfiles,
            sl \in {p \in SlopeProfiles : p["price"] = p["fast_ma"]},
            mo \in {m \in MomentumProfiles : m.rsi = 50 /\ m.roc \in {-3, 0, 3}}}
    \cup {TrFrame(TREND_MA_PERIOD, RisingMa, [k \in SlopeNames |-> "up"], NoStructure,
                  mo, 1) :
            mo \in {m \in MomentumProfiles : m.rsi = 70 /\ m.roc = 3}}

\* candles as fetched, without the moving-average columns, and a series
\* with none of the columns read
CandleColumns == {"close", "high", "low"}
ColumnsMissing == {MaColumns, MaColumns \cup CandleColumns}

\* long series that lack columns
MalformedTrFrames ==
    {[TrFrame(TREND_MA_PERIOD, FlatMa, sl, NoStructure, mo, 1) EXCEPT !.missing = cols] :
        sl \in {FlatSlopes},
        mo \in {m \in MomentumProfiles : m.rsi = 50 /\ m.roc \in {-3, 0, 3}},
        cols \in ColumnsMissing}

\* series of the other timeframes: empty, too short, long and aligned, or
\* long and as fetched
MtfFrames ==
    {EmptyTrFrame, TrFrame(TREND_MA_PERIOD - 1, FlatMa, FlatSlopes, NoStructure, NoMomentum, 1),
     [TrFrame(TREND_MA_PERIOD, FlatMa, FlatSlopes, NoStructure, NoMomentum, 1)
         EXCEPT !.missing = MaColumns]}
    \cup {TrFrame(TREND_MA_PERIOD, ma, FlatSlopes, NoStructure, NoMomentum, 1) :
            ma \in {m \in MaProfiles : (m.fast_ma > m.slow_ma) = (m.close > m.trend_ma)
                                        /\ (m.close > m.trend_ma) = (m.slow_ma > m.trend_ma)}}

MtfArgs ==
    {NoMtf}
    \cup {[tf \in {"daily"} |-> f] : f \in MtfFrames}
    \cup {[tf \in {"daily", "h4", "h1"} |->
              CASE tf = "daily" -> fd [] tf = "h4" -> f4 [] tf = "h1" -> EmptyTrFrame] :
            fd \in MtfFrames, f4 \in MtfFrames}

\* the timeframes matter to the methods that read them; a series that lacks
\* columns is given to the composite, whose components may fail
TrendCalls ==
    {c \in [op : {"get_trend_analysis"}, df : TrFrames \cup MalformedTrFrames,
            method : TrendMethods \cup {"UNKNOWN"}, mtf_data : MtfArgs] :
        /\ c.mtf_data = NoMtf
           \/ c.method \in {"MULTI_TIMEFRAME", "COMPOSITE_TREND", "UNKNOWN"}
        /\ c.df \in MalformedTrFrames => c.method = "COMPOSITE_TREND"}

GetTrendAnalysis ==
    /\ call.op = "get_trend_analysis"
    /\ ret = Pending
    /\ ret' = get_trend_analysis(call.df, call.method, call.mtf_data)
    /\ UNCHANGED <<call, tc, first, pc, requests>>

\* the composite classification called on its own
CompositeCalls ==
    [op : {"_composite_trend"},
     df : MalformedTrFrames
          \cup {TrFrame(TREND_MA_PERIOD, ma, FlatSlopes, NoStructure, NoMomentum, 1) :
                    ma \in MaProfiles},
     mtf_data : {m \in MtfArgs : DOMAIN m \in {{}, {"daily"}}}]

CompositeTrend ==
    /\ call.op = "_composite_trend"
    /\ ret = Pending
    /\ ret' = Returned(_composite_trend(call.df, call.mtf_data))
    /\ UNCHANGED <<call, tc, first, pc, requests>>

(***************************************************************************)
(* PriceActionConfirmation (price_action_confirmation.py): the             *)
(* Price-Action Matcher                                                    *)
(*                                                                         *)
(* The series record carries, for each group of detectors, the patterns    *)
(* the group finds in its window: records [name, direction, confidence].   *)
(***************************************************************************)
MIN_CANDLES_FOR_PATTERNS == 5
BASIC_MIN_CANDLES == 2
REVERSAL_PATTERN_LOOKBACK == 5
CONTINUATION_PATTERN_LOOKBACK == 10
MOMENTUM_PATTERN_LOOKBACK == 8
ZONE_CONTEXT_BONUS == 15
TREND_ALIGNMENT_BONUS == 10
MIN_CONFLUENCE_PATTERNS == 2
MULTIPLE_CONFLUENCE_BONUS == 5

PatternMethods ==
    {"BASIC_PATTERNS", "REVERSAL_PATTERNS", "CONTINUATION_PATTERNS",
     "MOMENTUM_PATTERNS", "CONFLUENCE_PATTERNS", "COMPREHENSIVE"}

Pattern(name, direction, confidence) ==
    [name |-> name, direction |-> direction, confidence |-> confidence]

_no_signal ==
    [signal |-> "NO_SIGNAL", confidence |-> 0, patterns_found |-> <<>>,
     pattern_count |-> 0]

RECURSIVE SumConfidence(_)
\* sum(p['confidence'] for p in patterns)
SumConfidence(patterns) ==
    IF patterns = <<>> THEN 0
    ELSE Head(patterns).confidence + SumConfidence(Tail(patterns))

WithDirection(patterns, direction) ==
    SelectSeq(patterns, LAMBDA pt : pt.direction = direction)

_compile_pattern_result(patterns, method) ==
    IF patterns = <<>>
    THEN _no_signal
    ELSE LET bullish_patterns == WithDirection(patterns, "BULLISH")
             bearish_patterns == WithDirection(patterns, "BEARISH")
         IN [signal |-> IF Len(bullish_patterns) > Len(bearish_patterns) THEN "BULLISH"
                        ELSE IF Len(bearish_patterns) > Len(bullish_patterns) THEN "BEARISH"
                        ELSE "NEUTRAL",
             confidence |->
                 IF Len(bullish_patterns) > Len(bearish_patterns)
                 THEN Min(SumConfidence(bullish_patterns), 100)
                 ELSE IF Len(bearish_patterns) > Len(bullish_patterns)
                 THEN Min(SumConfidence(bearish_patterns), 100)
                 ELSE 40,
             patterns_found |-> patterns,
             pattern_count |-> Len(patterns),
             method |-> method]

\* mutant: the hammer is recognised by its lower wick alone
_detect_single_candle_patterns_LowerWickOnly(candle) ==
    LET body_size == Abs(candle.close - candle.open)
        total_range == candle.high - candle.low
        lower_wick == Min(candle.open, candle.close) - candle.low
    IN IF total_range = 0
       THEN <<>>
       ELSE (IF 10 * body_size < total_range
             THEN <<Pattern("Doji", "NEUTRAL", 40)>> ELSE <<>>)
            \o (IF lower_wick > body_size * 2
                THEN <<Pattern("Hammer", "BULLISH", 60)>> ELSE <<>>)

\* the ratios DOJI_BODY_RATIO 0.1, HAMMER_WICK_RATIO 2.0,
\* HAMMER_UPPER_WICK_RATIO 0.5, SHOOTING_STAR_WICK_RATIO 2.0,
\* SHOOTING_STAR_LOWER_WICK_RATIO 0.5 and MARUBOZU_BODY_RATIO 0.9 are
\* cross-multiplied
_detect_single_candle_patterns(candle) ==
    LET body_size == Abs(candle.close - candle.open)
        total_range == candle.high - candle.low
        upper_wick == candle.high - Max(candle.open, candle.close)
        lower_wick == Min(candle.open, candle.close) - candle.low
    IN IF total_range = 0
       THEN <<>>
       ELSE (IF 10 * body_size < total_range
             THEN <<Pattern("Doji", "NEUTRAL", 40)>> ELSE <<>>)
            \o (IF lower_wick > body_size * 2 /\ 2 * upper_wick < body_size
                THEN <<Pattern("Hammer", "BULLISH", 60)>> ELSE <<>>)
            \o (IF upper_wick > body_size * 2 /\ 2 * lower_wick < body_size
                THEN <<Pattern("Shooting Star", "BEARISH", 60)>> ELSE <<>>)
            \o (IF 10 * body_size > 9 * total_range
                THEN <<Pattern("Marubozu",
                               IF candle.close > candle.open THEN "BULLISH"
                               ELSE "BEARISH", 70)>>
                ELSE <<>>)

\* ENGULFING_SIZE_RATIO 1.2 is cross-multiplied
_detect_double_candle_patterns(prev_candle, current_candle) ==
    LET prev_body == Abs(prev_candle.close - prev_candle.open)
        current_body == Abs(current_candle.close - current_candle.open)
    IN (IF /\ prev_candle.close < prev_candle.open
           /\ current_candle.close > current_candle.open
           /\ current_candle.open < prev_candle.close
           /\ current_candle.close > prev_candle.open
           /\ 10 * current_body > 12 * prev_body
        THEN <<Pattern("Bullish Engulfing", "BULLISH", 75)>> ELSE <<>>)
       \o (IF /\ prev_candle.close > prev_candle.open
               /\ current_candle.close < current_candle.open
               /\ current_candle.open > prev_candle.close
               /\ current_candle.close < prev_candle.open
               /\ 10 * current_body > 12 * prev_body
           THEN <<Pattern("Bearish Engulfing", "BEARISH", 75)>> ELSE <<>>)

_basic_candlestick_patterns(df, zones, trend_data) ==
    IF df.len < BASIC_MIN_CANDLES
    THEN _no_signal
    ELSE LET patterns_found == _detect_single_candle_patterns(df.latest)
                               \o _detect_double_candle_patterns(df.prev, df.latest)
             bullish_patterns == WithDirection(patterns_found, "BULLISH")
             bearish_patterns == WithDirection(patterns_found, "BEARISH")
         IN [signal |-> IF patterns_found = <<>> THEN "NO_SIGNAL"
                        ELSE IF Len(bullish_patterns) > Len(bearish_patterns) THEN "BULLISH"
                        ELSE IF Len(bearish_patterns) > Len(bullish_patterns) THEN "BEARISH"
                        ELSE "NEUTRAL",
             confidence |-> IF patterns_found = <<>> THEN 0
                            ELSE Min(SumConfidence(patterns_found), 100),
             patterns_found |-> patterns_found,
             pattern_count |-> Len(patterns_found),
             method |-> "BASIC_PATTERNS"]

\* zone_height * ZONE_PROXIMITY_RATIO with the ratio 0.5, doubled on both sides
_is_price_near_zone(price, zone_data) ==
    LET zone_height == zone_data.upper - zone_data.lower
    IN \/ 2 * Abs(price - zone_data.upper) <= zone_height
       \/ 2 * Abs(price - zone_data.lower) <= zone_height
       \/ (zone_data.lower <= price /\ price <= zone_data.upper)

\* the inner loop breaks at the first zone near the price
_enhance_zone_context(patterns, zones, current_price) ==
    LET near == \E n \in DOMAIN zones : _is_price_near_zone(current_price, zones[n])
    IN [i \in DOMAIN patterns |->
          IF near /\ patterns[i].direction \in {"BULLISH", "BEARISH"}
          THEN [patterns[i] EXCEPT !.confidence = @ + ZONE_CONTEXT_BONUS]
          ELSE patterns[i]]

_enhance_trend_context(patterns, trend_data) ==
    [i \in DOMAIN patterns |->
        IF patterns[i].direction \in {"BULLISH", "BEARISH"}
           /\ patterns[i].direction = trend_data.bias
        THEN [patterns[i] EXCEPT !.confidence = @ + TREND_ALIGNMENT_BONUS]
        ELSE patterns[i]]

RECURSIVE ExtendAll(_)
\* patterns.extend(...) once for every step of a loop
ExtendAll(found) ==
    IF Len(found) = 0 THEN <<>> ELSE Head(found) \o ExtendAll(Tail(found))

\* PIN_BAR_WICK_RATIO 0.6, PIN_BAR_OPPOSITE_WICK_RATIO 0.2 and
\* PIN_BAR_BODY_RATIO 0.3 are cross-multiplied
_detect_pin_bars(df) ==
    IF Len(df) < 1
    THEN <<>>
    ELSE LET latest == df[Len(df)]
             body_size == Abs(latest.close - latest.open)
             total_range == latest.high - latest.low
             upper_wick == latest.high - Max(latest.open, latest.close)
             lower_wick == Min(latest.open, latest.close) - latest.low
         IN IF total_range = 0
            THEN <<>>
            ELSE (IF /\ 10 * lower_wick > 6 * total_range
                     /\ 10 * upper_wick < 2 * total_range
                     /\ 10 * body_size < 3 * total_range
                  THEN <<Pattern("Bullish Pin Bar", "BULLISH", 80)>> ELSE <<>>)
                 \o (IF /\ 10 * upper_wick > 6 * total_range
                         /\ 10 * lower_wick < 2 * total_range
                         /\ 10 * body_size < 3 * total_range
                      THEN <<Pattern("Bearish Pin Bar", "BEARISH", 80)>> ELSE <<>>)

\* every pair of neighbouring candles of the window, oldest first
_detect_engulfing_patterns(df) ==
    IF Len(df) < 2
    THEN <<>>
    ELSE ExtendAll([i \in 1..(Len(df) - 1) |->
             SelectSeq(_detect_double_candle_patterns(df[i], df[i + 1]),
                       LAMBDA pt : pt.name \in {"Bullish Engulfing", "Bearish Engulfing"})])

\* every candle of the window, oldest first
_detect_hammer_doji_patterns(df) ==
    ExtendAll([i \in 1..Len(df) |->
        SelectSeq(_detect_single_candle_patterns(df[i]),
                  LAMBDA pt : pt.name \in {"Hammer", "Doji", "Shooting Star"})])

\* STAR_BODY_RATIO 0.3 and the midpoint of the first candle are
\* cross-multiplied
StarsAt(candle1, candle2, candle3) ==
    LET small_star == 10 * Abs(candle2.close - candle2.open)
                          < 3 * (candle2.high - candle2.low)
    IN (IF /\ candle1.close < candle1.open
           /\ small_star
           /\ candle3.close > candle3.open
           /\ 2 * candle3.close > candle1.open + candle1.close
        THEN <<Pattern("Morning Star", "BULLISH", 85)>> ELSE <<>>)
       \o (IF /\ candle1.close > candle1.open
               /\ small_star
               /\ candle3.close < candle3.open
               /\ 2 * candle3.close < candle1.open + candle1.close
           THEN <<Pattern("Evening Star", "BEARISH", 85)>> ELSE <<>>)

_detect_star_patterns(df) ==
    IF Len(df) < 3
    THEN <<>>
    ELSE ExtendAll([i \in 1..(Len(df) - 2) |-> StarsAt(df[i], df[i + 1], df[i + 2])])

\* the reversal patterns of df.tail(REVERSAL_PATTERN_LOOKBACK) after the
\* zone and trend enhancements
EnhancedReversals(df, zones, trend_data) ==
    LET found == _detect_pin_bars(df.recent) \o _detect_engulfing_patterns(df.recent)
                 \o _detect_hammer_doji_patterns(df.recent)
                 \o _detect_star_patterns(df.recent)
        zoned == IF DOMAIN zones # {} /\ found # <<>>
                 THEN _enhance_zone_context(found, zones, df.close) ELSE found
    IN IF trend_data.present /\ zoned # <<>>
       THEN _enhance_trend_context(zoned, trend_data) ELSE zoned

_reversal_patterns(df, zones, trend_data) ==
    IF df.len < REVERSAL_PATTERN_LOOKBACK
    THEN _no_signal
    ELSE _compile_pattern_result(EnhancedReversals(df, zones, trend_data),
                                 "REVERSAL_PATTERNS")

_continuation_patterns(df, zones, trend_data) ==
    IF df.len < CONTINUATION_PATTERN_LOOKBACK
    THEN _no_signal
    ELSE _compile_pattern_result(df.continuation, "CONTINUATION_PATTERNS")

_momentum_patterns(df, zones, trend_data) ==
    IF df.len < MOMENTUM_PATTERN_LOOKBACK
    THEN _no_signal
    ELSE _compile_pattern_result(df.momentum, "MOMENTUM_PATTERNS")

Confluence(direction, patterns) ==
    [direction |-> direction, patterns |-> patterns, pattern_count |-> Len(patterns),
     combined_confidence |-> Min(SumConfidence(patterns), 100)]

_find_pattern_confluences(patterns) ==
    LET bullish_patterns == WithDirection(patterns, "BULLISH")
        bearish_patterns == WithDirection(patterns, "BEARISH")
    IN (IF Len(bullish_patterns) >= MIN_CONFLUENCE_PATTERNS
        THEN <<Confluence("BULLISH", bullish_patterns)>> ELSE <<>>)
       \o (IF Len(bearish_patterns) >= MIN_CONFLUENCE_PATTERNS
           THEN <<Confluence("BEARISH", bearish_patterns)>> ELSE <<>>)

RECURSIVE MaxCombined(_)
\* max(c['combined_confidence'] for c in confluences)
MaxCombined(confluences) ==
    IF Len(confluences) = 1 THEN Head(confluences).combined_confidence
    ELSE Max(Head(confluences).combined_confidence, MaxCombined(Tail(confluences)))

_calculate_confluence_score(confluences) ==
    IF confluences = <<>> THEN 0
    ELSE Min(MaxCombined(confluences)
             + (Len(confluences) - 1) * MULTIPLE_CONFLUENCE_BONUS, 100)

\* all_patterns[:3]
FirstThree(patterns) == SubSeq(patterns, 1, Min(3, Len(patterns)))

_confluence_patterns(df, zones, trend_data) ==
    LET basic_result == _basic_candlestick_patterns(df, zones, trend_data)
        reversal_result == _reversal_patterns(df, zones, trend_data)
        momentum_result == _momentum_patterns(df, zones, trend_data)
        all_patterns == basic_result.patterns_found \o reversal_result.patterns_found
                        \o momentum_result.patterns_found
        confluences == _find_pattern_confluences(all_patterns)
        bullish_confluences == WithDirection(confluences, "BULLISH")
        bearish_confluences == WithDirection(confluences, "BEARISH")
    IN IF confluences # <<>>
       THEN [signal |-> IF Len(bullish_confluences) > Len(bearish_confluences)
                        THEN "BULLISH"
                        ELSE IF Len(bearish_confluences) > Len(bullish_confluences)
                        THEN "BEARISH"
                        ELSE "NEUTRAL",
             confidence |-> _calculate_confluence_score(confluences),
             confluences |-> confluences,
             method |-> "CONFLUENCE_PATTERNS"]
       ELSE _compile_pattern_result(FirstThree(all_patterns), "CONFLUENCE_PATTERNS")

\* method_result.get('patterns_found'), empty when the key is missing
PatternsOf(method_result) ==
    IF "patterns_found" \in DOMAIN method_result
    THEN method_result.patterns_found ELSE <<>>

\* the methods run in the order of self.pattern_methods
_comprehensive_analysis(df, zones, trend_data) ==
    LET all_patterns ==
            PatternsOf(_basic_candlestick_patterns(df, zones, trend_data))
            \o PatternsOf(_reversal_patterns(df, zones, trend_data))
            \o PatternsOf(_continuation_patterns(df, zones, trend_data))
            \o PatternsOf(_momentum_patterns(df, zones, trend_data))
            \o PatternsOf(_confluence_patterns(df, zones, trend_data))
        combined_analysis == IF all_patterns # <<>>
                             THEN _compile_pattern_result(all_patterns, "COMPREHENSIVE")
                             ELSE _no_signal
    IN Update(combined_analysis, [method |-> "COMPREHENSIVE"])

\* self.pattern_methods[method](df, zones, trend_data)
PatternMethod(method, df, zones, trend_data) ==
    CASE method = "BASIC_PATTERNS" -> _basic_candlestick_patterns(df, zones, trend_data)
      [] method = "REVERSAL_PATTERNS" -> _reversal_patterns(df, zones, trend_data)
      [] method = "CONTINUATION_PATTERNS" -> _continuation_patterns(df, zones, trend_data)
      [] method = "MOMENTUM_PATTERNS" -> _momentum_patterns(df, zones, trend_data)
      [] method = "CONFLUENCE_PATTERNS" -> _confluence_patterns(df, zones, trend_data)
      [] method = "COMPREHENSIVE" -> _comprehensive_analysis(df, zones, trend_data)

analyze_price_action(df, zones, trend_data, method) ==
    IF method \notin PatternMethods
    THEN Raised("ValueError", "Unknown price action method")
    ELSE IF df.len = 0 \/ df.len < MIN_CANDLES_FOR_PATTERNS
    THEN Returned(_no_signal)
    ELSE Returned(Update(PatternMethod(method, df, zones, trend_data),
                         [current_price |-> df.close, analysis_method |-> method,
                          candles_analyzed |-> df.len]))

(***************************************************************************)
(* Inputs of the Price-Action Matcher                                      *)
(***************************************************************************)
Doji == Pattern("Doji", "NEUTRAL", 40)
InsideBar == Pattern("Inside Bar", "CONTINUATION", 50)
BullishBreakout == Pattern("Bullish Breakout", "BULLISH", 70)
StrongBearishClose == Pattern("Strong Bearish Close", "BEARISH", 60)
GapUp == Pattern("Gap Up", "BULLISH", 65)
HighVolume == Pattern("High Volume Confirmation", "CONFIRMATION", 25)

Candle(open, high, low, close) ==
    [open |-> open, high |-> high, low |-> low, close |-> close]

\* latest candles closing at H1Price: a plain candle, a candle without body
\* and with long wicks of one length, a candle with a long lower wick and
\* one with a long upper wick
PlainCandle == Candle(H1Price - 3, H1Price + 3, H1Price - 6, H1Price)
DojiCandle == Candle(H1Price, H1Price + 10, H1Price - 10, H1Price)
HammerCandle == Candle(H1Price - 4, H1Price + 1, H1Price - 14, H1Price)
ShootingStarCandle == Candle(H1Price - 4, H1Price + 10, H1Price - 5, H1Price)

\* a long lower wick under a body of a twentieth of the range
SmallBodyHammerCandle == Candle(H1Price - 1, H1Price, H1Price - 21, H1Price)

\* a lower wick a little over twice the body and under six tenths of the
\* range: a hammer that is no pin bar
ShortWickHammerCandle == Candle(H1Price - 20, H1Price + 9, H1Price - 62, H1Price)

\* a small falling candle, which the last two candles above engulf
SmallBearishCandle == Candle(H1Price - 1, H1Price - 1, H1Price - 3, H1Price - 3)

\* a rising candle, a candle of small body above it and a falling candle
\* that closes under the middle of the first
RisingCandle == Candle(H1Price - 10, H1Price + 1, H1Price - 11, H1Price)
StarCandle == Candle(H1Price + 3, H1Price + 10, H1Price, H1Price + 4)
FallingCandle == Candle(H1Price + 3, H1Price + 4, H1Price - 9, H1Price - 8)

\* the last REVERSAL_PATTERN_LOOKBACK candles of the series, oldest first
RecentCandles ==
    {<<PlainCandle, PlainCandle, PlainCandle, PlainCandle, PlainCandle>>,
     <<PlainCandle, PlainCandle, PlainCandle, PlainCandle, DojiCandle>>,
     <<PlainCandle, PlainCandle, PlainCandle, PlainCandle, HammerCandle>>,
     <<PlainCandle, PlainCandle, PlainCandle, PlainCandle, SmallBodyHammerCandle>>,
     <<PlainCandle, PlainCandle, PlainCandle, PlainCandle, ShortWickHammerCandle>>,
     <<PlainCandle, PlainCandle, PlainCandle, SmallBearishCandle, HammerCandle>>,
     <<PlainCandle, PlainCandle, PlainCandle, SmallBearishCandle, ShootingStarCandle>>,
     <<RisingCandle, StarCandle, FallingCandle, PlainCandle, HammerCandle>>,
     <<PlainCandle, PlainCandle, RisingCandle, StarCandle, FallingCandle>>}
ContinuationFinds == {<<>>, <<InsideBar>>, <<BullishBreakout>>}
MomentumFinds == {<<>>, <<StrongBearishClose>>, <<GapUp, HighVolume>>}

\* a series of len candles that ends with the candles of recent
PaFrame(len, recent, continuation, momentum) ==
    [len |-> len, close |-> recent[Len(recent)].close,
     prev |-> recent[Len(recent) - 1], latest |-> recent[Len(recent)],
     recent |-> recent, continuation |-> continuation, momentum |-> momentum]

\* a window shorter than a group's lookback shows that group nothing
PaFrames ==
    {PaFrame(0, <<PlainCandle, PlainCandle, PlainCandle, PlainCandle, PlainCandle>>,
             <<>>, <<>>)}
    \cup {PaFrame(l, r, <<>>, <<>>) :
            l \in {1, BASIC_MIN_CANDLES, MIN_CANDLES_FOR_PATTERNS - 1,
                   MIN_CANDLES_FOR_PATTERNS},
            r \in RecentCandles}
    \cup {PaFrame(CONTINUATION_PATTERN_LOOKBACK, r, c, m) :
            r \in RecentCandles, c \in ContinuationFinds, m \in MomentumFinds}

\* zones around the price, away from it, or none
PaZoneArgs ==
    {NoZones} \cup {ta_create_zones([len |-> 1, fast_ma |-> c, slow_ma |-> c,
                                     trend_ma |-> c], ZONE_WIDTH_PIPS) :
                     c \in {H1Price, H1Price + FarPips}}

PaTrendArgs == {NoTrendData, TrendData("BULLISH", "MEDIUM"), TrendData("BEARISH", "MEDIUM")}

PriceActionCalls ==
    [op : {"analyze_price_action"}, df : PaFrames, zones : PaZoneArgs,
     trend_data : PaTrendArgs, method : PatternMethods \cup {"UNKNOWN"}]

AnalyzePriceAction ==
    /\ call.op = "analyze_price_action"
    /\ ret = Pending
    /\ ret' = analyze_price_action(call.df, call.zones, call.trend_data, call.method)
    /\ UNCHANGED <<call, tc, first, pc, requests>>

(***************************************************************************)
(* EntryTiming (zone_based_strategy/entry_timing.py): the Entry Timing     *)
(* Selector                                                                *)
(*                                                                         *)
(* The series record carries its latest candle (open, high, low, close),   *)
(* the close three rows back, the extremes of the last three rows and the  *)
(* class of the latest volume.                                             *)
(***************************************************************************)
WICK_REJECTION_RATIO == 2
REJECTION_MIN_CANDLES == 3
PULLBACK_LOOKBACK == 10
\* trading_config assigns BREAKOUT_LOOKBACK twice; the later value stands
BREAKOUT_LOOKBACK == 10
VOLUME_CONFIRMATION_MIN_CANDLES == 5

EntryMethods ==
    {"IMMEDIATE", "ZONE_REJECTION", "PULLBACK_COMPLETION", "BREAKOUT_RETEST",
     "CONFLUENCE_CONFIRMATION"}

NoEntry(method) == [signal |-> "NO_ENTRY", method |-> method, confidence |-> 0]

\* zones.items() in insertion order
ZoneOrder(zones) == SelectSeq(ZoneNames, LAMBDA n : n \in DOMAIN zones)

\* df['close'].iloc[-1] of an empty series is out of bounds
_immediate_entry(df, zones) ==
    IF df.len = 0
    THEN Raised("IndexError", "single positional indexer is out-of-bounds")
    ELSE LET hits == SelectSeq(ZoneOrder(zones),
                               LAMBDA n : is_price_in_zone(df.close, zones[n]))
         IN IF hits # <<>>
            THEN Returned([signal |-> "ENTRY", method |-> "IMMEDIATE",
                           confidence |-> 30, zone |-> Head(hits)])
            ELSE Returned(NoEntry("IMMEDIATE"))

\* wick_strength is wick / body_size, or 5.0 for a candle without a body
_detect_zone_rejection(latest_candle, zone_data) ==
    LET body_size == Abs(latest_candle.close - latest_candle.open)
        lower_wick == IF latest_candle.close > latest_candle.open
                      THEN latest_candle.open - latest_candle.low
                      ELSE latest_candle.close - latest_candle.low
        upper_wick == IF latest_candle.close < latest_candle.open
                      THEN latest_candle.high - latest_candle.open
                      ELSE latest_candle.high - latest_candle.close
    IN IF /\ latest_candle.low <= zone_data.lower
          /\ latest_candle.close > zone_data.center
          /\ lower_wick > body_size * WICK_REJECTION_RATIO
       THEN [detected |-> TRUE, direction |-> "BULLISH",
             wick_strength |-> IF body_size > 0 THEN Ratio(lower_wick, body_size)
                               ELSE Ratio(5, 1),
             bounce_distance |-> latest_candle.close - latest_candle.low]
       ELSE IF /\ latest_candle.high >= zone_data.upper
               /\ latest_candle.close < zone_data.center
               /\ upper_wick > body_size * WICK_REJECTION_RATIO
       THEN [detected |-> TRUE, direction |-> "BEARISH",
             wick_strength |-> IF body_size > 0 THEN Ratio(upper_wick, body_size)
                               ELSE Ratio(5, 1),
             bounce_distance |-> latest_candle.high - latest_candle.close]
       ELSE [detected |-> FALSE]

\* the confidence with a base of 40 in place of 45
_calculate_rejection_confidence_LowerBase(zone_data, rejection_signal) ==
    LET ws == rejection_signal.wick_strength
        wick_bonus == IF ws.num * 10 >= 30 * ws.den THEN Ratio(30, 1)
                      ELSE Ratio(ws.num * 10, ws.den)
        zone_height == zone_data.upper - zone_data.lower
        bounce_bonus == IF zone_height = 0
                           \/ rejection_signal.bounce_distance * 20 >= 20 * zone_height
                        THEN Ratio(20, 1)
                        ELSE Ratio(rejection_signal.bounce_distance * 20, zone_height)
        bonus == (wick_bonus.num * bounce_bonus.den + bounce_bonus.num * wick_bonus.den)
                 \div (wick_bonus.den * bounce_bonus.den)
    IN Min(40 + bonus, 95)

\* min(int(45 + min(wick_strength * 10, 30) + min(bounce_ratio * 20, 20)), 95);
\* a zone of no height makes the bounce ratio infinite, and its bonus 20
_calculate_rejection_confidence(zone_data, rejection_signal) ==
    LET ws == rejection_signal.wick_strength
        wick_bonus == IF ws.num * 10 >= 30 * ws.den THEN Ratio(30, 1)
                      ELSE Ratio(ws.num * 10, ws.den)
        zone_height == zone_data.upper - zone_data.lower
        bounce_bonus == IF zone_height = 0
                           \/ rejection_signal.bounce_distance * 20 >= 20 * zone_height
                        THEN Ratio(20, 1)
                        ELSE Ratio(rejection_signal.bounce_distance * 20, zone_height)
        bonus == (wick_bonus.num * bounce_bonus.den + bounce_bonus.num * wick_bonus.den)
                 \div (wick_bonus.den * bounce_bonus.den)
    IN Min(45 + bonus, 95)

LatestCandle(df) == [open |-> df.open, high |-> df.high, low |-> df.low, close |-> df.close]

_zone_rejection_entry(df, zones) ==
    IF df.len < REJECTION_MIN_CANDLES
    THEN NoEntry("ZONE_REJECTION")
    ELSE LET hits == SelectSeq(ZoneOrder(zones),
                       LAMBDA n : _detect_zone_rejection(LatestCandle(df), zones[n]).detected)
         IN IF hits # <<>>
            THEN LET rejection_signal ==
                         _detect_zone_rejection(LatestCandle(df), zones[Head(hits)])
                 IN [signal |-> "ENTRY", method |-> "ZONE_REJECTION",
                     confidence |-> _calculate_rejection_confidence(
                                        zones[Head(hits)], rejection_signal),
                     zone |-> Head(hits),
                     direction |-> rejection_signal.direction]
            ELSE NoEntry("ZONE_REJECTION")

\* closes[-3], min(lows[-3:]) and max(highs[-3:]) are df.close_3, df.low_3, df.high_3
_analyze_pullback(df) ==
    IF df.close > df.close_3
    THEN IF df.close > df.low_3 /\ df.high > df.low_3
         THEN [completed |-> TRUE, direction |-> "BULLISH", level |-> df.low_3,
               recovery_strength |-> Ratio(df.close - df.low_3, df.low_3)]
         ELSE [completed |-> FALSE]
    ELSE IF df.close < df.high_3 /\ df.low < df.high_3
         THEN [completed |-> TRUE, direction |-> "BEARISH", level |-> df.high_3,
               recovery_strength |-> Ratio(df.high_3 - df.close, df.high_3)]
         ELSE [completed |-> FALSE]

_is_pullback_in_zone(pullback_analysis, zone_data) ==
    zone_data.lower <= pullback_analysis.level /\ pullback_analysis.level <= zone_data.upper

\* min(int(50 + min(recovery_strength * 100, 30)), 85)
_calculate_pullback_confidence(pullback_analysis) ==
    LET rs == pullback_analysis.recovery_strength
    IN Min(50 + Min((rs.num * 100) \div rs.den, 30), 85)

_pullback_completion_entry(df, zones) ==
    IF df.len < PULLBACK_LOOKBACK
    THEN NoEntry("PULLBACK_COMPLETION")
    ELSE LET pullback_analysis == _analyze_pullback(df)
             hits == IF pullback_analysis.completed
                     THEN SelectSeq(ZoneOrder(zones),
                            LAMBDA n : _is_pullback_in_zone(pullback_analysis, zones[n]))
                     ELSE <<>>
         IN IF hits # <<>>
            THEN [signal |-> "ENTRY", method |-> "PULLBACK_COMPLETION",
                  confidence |-> _calculate_pullback_confidence(pullback_analysis),
                  zone |-> Head(hits),
                  direction |-> pullback_analysis.direction]
            ELSE NoEntry("PULLBACK_COMPLETION")

\* the placeholder detection: always {'detected': False}
_detect_breakout_retest(df, zones) == [detected |-> FALSE]

_breakout_retest_entry(df, zones) ==
    IF df.len < BREAKOUT_LOOKBACK
    THEN NoEntry("BREAKOUT_RETEST")
    ELSE IF _detect_breakout_retest(df, zones).detected
    THEN [signal |-> "ENTRY", method |-> "BREAKOUT_RETEST",
          confidence |-> _detect_breakout_retest(df, zones).confidence]
    ELSE NoEntry("BREAKOUT_RETEST")

_has_volume_confirmation(df) ==
    /\ df.volume # "none"
    /\ df.len >= VOLUME_CONFIRMATION_MIN_CANDLES
    /\ df.volume = "spike"

\* body_position > 0.7 or body_position < 0.3, 0.5 for a candle without range
_has_price_action_confirmation(df) ==
    /\ df.len >= 2
    /\ df.high # df.low
    /\ \/ 10 * (df.close - df.low) > 7 * (df.high - df.low)
       \/ 10 * (df.close - df.low) < 3 * (df.high - df.low)

\* mutant: the entry needs more confirmations than the configured minimum
_confluence_confirmation_entry_AboveMinimum(df, zones) ==
    LET zone_rejection == _zone_rejection_entry(df, zones)
        pullback_completion == _pullback_completion_entry(df, zones)
        confirmations ==
            (IF zone_rejection.signal = "ENTRY"
             THEN <<[name |-> "zone_rejection", confidence |-> zone_rejection.confidence]>>
             ELSE <<>>)
            \o (IF pullback_completion.signal = "ENTRY"
                THEN <<[name |-> "pullback_completion",
                        confidence |-> pullback_completion.confidence]>>
                ELSE <<>>)
            \o (IF _has_volume_confirmation(df)
                THEN <<[name |-> "volume", confidence |-> 15]>> ELSE <<>>)
            \o (IF _has_price_action_confirmation(df)
                THEN <<[name |-> "price_action", confidence |-> 20]>> ELSE <<>>)
    IN IF Len(confirmations) > tc.MIN_CONFLUENCE_CONFIRMATIONS
       THEN [signal |-> "ENTRY", method |-> "CONFLUENCE_CONFIRMATION",
             confidence |-> Min(SumConfidence(confirmations), 95),
             confirmations |-> confirmations]
       ELSE NoEntry("CONFLUENCE_CONFIRMATION")

_confluence_confirmation_entry(df, zones) ==
    LET zone_rejection == _zone_rejection_entry(df, zones)
        pullback_completion == _pullback_completion_entry(df, zones)
        confirmations ==
            (IF zone_rejection.signal = "ENTRY"
             THEN <<[name |-> "zone_rejection", confidence |-> zone_rejection.confidence]>>
             ELSE <<>>)
            \o (IF pullback_completion.signal = "ENTRY"
                THEN <<[name |-> "pullback_completion",
                        confidence |-> pullback_completion.confidence]>>
                ELSE <<>>)
            \o (IF _has_volume_confirmation(df)
                THEN <<[name |-> "volume", confidence |-> 15]>> ELSE <<>>)
            \o (IF _has_price_action_confirmation(df)
                THEN <<[name |-> "price_action", confidence |-> 20]>> ELSE <<>>)
    IN IF Len(confirmations) >= tc.MIN_CONFLUENCE_CONFIRMATIONS
       THEN [signal |-> "ENTRY", method |-> "CONFLUENCE_CONFIRMATION",
             confidence |-> Min(SumConfidence(confirmations), 95),
             confirmations |-> confirmations]
       ELSE NoEntry("CONFLUENCE_CONFIRMATION")

\* self.entry_methods[method](df, zones)
EntryMethod(method, df, zones) ==
    CASE method = "IMMEDIATE" -> _immediate_entry(df, zones)
      [] method = "ZONE_REJECTION" -> Returned(_zone_rejection_entry(df, zones))
      [] method = "PULLBACK_COMPLETION" -> Returned(_pullback_completion_entry(df, zones))
      [] method = "BREAKOUT_RETEST" -> Returned(_breakout_retest_entry(df, zones))
      [] method = "CONFLUENCE_CONFIRMATION" ->
            Returned(_confluence_confirmation_entry(df, zones))

get_entry_signal(df, zones, method) ==
    IF method \notin EntryMethods
    THEN Raised("ValueError", "Unknown entry method")
    ELSE EntryMethod(method, df, zones)

(***************************************************************************)
(* Inputs of the Entry Timing Selector                                     *)
(***************************************************************************)
\* latest candles around a zone centred on H1Price: rejections from below
\* (small body, no body, large body) and from above, a candle inside the
\* zone, a candle far from it, a candle without range, a candle without
\* body whose wicks span from below H1Price to above H1Price + FarPips, and
\* a rejection from below whose wick is little more than twice its body and
\* whose close is just above the zone's center
EntryCandles ==
    {Candle(H1Price + 4, H1Price + 6, H1Price - 20, H1Price + 5),
     Candle(H1Price - 4, H1Price + 2, H1Price - 15, H1Price + 1),
     Candle(H1Price + 20, H1Price + FarPips + 20, H1Price - 20, H1Price + 20),
     Candle(H1Price + 5, H1Price + 5, H1Price - 20, H1Price + 5),
     Candle(H1Price + 1, H1Price + 10, H1Price - 20, H1Price + 10),
     Candle(H1Price - 4, H1Price + 20, H1Price - 6, H1Price - 5),
     Candle(H1Price, H1Price + 3, H1Price - 1, H1Price + 2),
     Candle(H1Price + FarPips, H1Price + FarPips + 3, H1Price + FarPips - 1,
            H1Price + FarPips + 2),
     Candle(H1Price, H1Price, H1Price, H1Price)}

EntryFrame(len, candle, close_3, low_3, high_3, volume) ==
    [len |-> len, open |-> candle.open, high |-> candle.high, low |-> candle.low,
     close |-> candle.close, close_3 |-> close_3, low_3 |-> low_3, high_3 |-> high_3,
     volume |-> volume]

EmptyEntryFrame == EntryFrame(0, Candle(0, 0, 0, 0), 0, 0, 0, "none")

EntryFrames ==
    {EmptyEntryFrame}
    \cup {EntryFrame(l, c, c.close, c.low, c.high, "none") :
            l \in {1, REJECTION_MIN_CANDLES - 1, REJECTION_MIN_CANDLES}, c \in EntryCandles}
    \cup {EntryFrame(l, c, c.close + d, c.low - e, c.high + e, v) :
            l \in {VOLUME_CONFIRMATION_MIN_CANDLES, PULLBACK_LOOKBACK},
            c \in EntryCandles, d \in {-1, 1}, e \in 0..MaxAtr,
            v \in {"none", "normal", "spike"}}

\* no zones, or zones of the fixed width or of no width, the fast one at or
\* away from H1Price
EntryZoneArgs ==
    {NoZones}
    \cup {ta_create_zones([len |-> 1, fast_ma |-> cf, slow_ma |-> H1Price + FarPips,
                           trend_ma |-> H1Price], w) :
            cf \in {H1Price, H1Price + FarPips}, w \in {0, ZONE_WIDTH_PIPS}}

EntryCalls ==
    [op : {"get_entry_signal"}, df : EntryFrames, zones : EntryZoneArgs,
     method : EntryMethods \cup {"UNKNOWN"}]

GetEntrySignal ==
    /\ call.op = "get_entry_signal"
    /\ ret = Pending
    /\ ret' = get_entry_signal(call.df, call.zones, call.method)
    /\ UNCHANGED <<call, tc, first, pc, requests>>

(***************************************************************************)
(* The analysis stages, each invoked on its own (SpecStages)               *)
(***************************************************************************)
StageCalls ==
    ZoneCalls \cup TaZoneCalls \cup TrendCalls \cup CompositeCalls
    \cup PriceActionCalls \cup EntryCalls

\* the operations that read the globals the presets assign
ConfigReaders == {"DynamicZones.create_zones", "get_entry_signal"}

InitStages ==
    /\ call \in StageCalls
    /\ ret = Pending
    /\ tc \in (IF call.op \in ConfigReaders THEN PresetConfigs ELSE {ImportConfig})
    /\ first = NotYet
    /\ pc = "caller"
    /\ requests = <<>>
NextStages ==
    \/ DynamicCreateZones
    \/ TaCreateZones
    \/ GetTrendAnalysis
    \/ CompositeTrend
    \/ AnalyzePriceAction
    \/ GetEntrySignal
SpecStages == InitStages /\ [][NextStages]_vars

(***************************************************************************)
(* Claims about the Zone Builder (SpecStages)                              *)
(***************************************************************************)
ZonesDone ==
    /\ call.op \in {"DynamicZones.create_zones", "TechnicalAnalysis.create_zones"}
    /\ ret.status = "returned"

\* C5: every zone produced by any sizing method, for any series length and
\* any trend data, has lower <= center <= upper and is symmetric about its
\* center (upper - center = center - lower).
C5_ZonesOrderedSymmetric ==
    ZonesDone =>
        \A n \in DOMAIN ret.value :
            /\ ret.value[n].lower <= ret.value[n].center
            /\ ret.value[n].center <= ret.value[n].upper
            /\ ret.value[n].upper - ret.value[n].center
                 = ret.value[n].center - ret.value[n].lower

\* a trend-adjusted ATR zone of positive width
C5_Witness ==
    /\ ZonesDone
    /\ call.op = "DynamicZones.create_zones"
    /\ call.method = "TREND_ADAPTIVE"
    /\ call.trend_data.present
    /\ DOMAIN ret.value = ZoneNameSet
    /\ ret.value["fast_ma_zone"].method = "TREND_ADAPTIVE"
    /\ ret.value["fast_ma_zone"].upper > ret.value["fast_ma_zone"].center

(***************************************************************************)
(* Claims about the Trend Classifier (SpecStages)                          *)
(***************************************************************************)
TrendCalled == call.op = "get_trend_analysis" /\ ret # Pending

\* every series the method reads is below the lookback it needs
TooShort(method, df, mtf_data) ==
    CASE method = "MA_ALIGNMENT" -> df.len < TREND_MA_PERIOD
      [] method = "SLOPE_ANALYSIS" -> df.len < SLOPE_LOOKBACK
      [] method = "MARKET_STRUCTURE" -> df.len < STRUCTURE_LOOKBACK
      [] method = "MOMENTUM_TREND" -> df.len < MOMENTUM_LOOKBACK
      [] method = "MULTI_TIMEFRAME" ->
            IF DOMAIN mtf_data = {} THEN df.len < TREND_MA_PERIOD
            ELSE \A tf \in DOMAIN mtf_data : mtf_data[tf].len < TREND_MA_PERIOD
      [] method = "COMPOSITE_TREND" ->
            /\ df.len < TREND_MA_PERIOD
            /\ df.len < SLOPE_LOOKBACK
            /\ df.len < MOMENTUM_LOOKBACK
            /\ \A tf \in DOMAIN mtf_data : mtf_data[tf].len < TREND_MA_PERIOD
      [] OTHER -> FALSE

\* C7: for every trend method and every series shorter than the method's
\* minimum lookback (for MULTI_TIMEFRAME and COMPOSITE_TREND: every series
\* they use is too short), the classifier returns bias NEUTRAL, strength
\* WEAK and a confidence of at most 40, and does not raise.
C7_ShortSeriesNeutral ==
    (TrendCalled /\ TooShort(call.method, call.df, call.mtf_data)) =>
        /\ ret.status = "returned"
        /\ ret.value.bias = "NEUTRAL"
        /\ ret.value.strength = "WEAK"
        /\ ret.value.confidence <= 40 * ConfScale

\* a non-empty short series through the composite with short timeframes
C7_Witness ==
    /\ TrendCalled
    /\ call.method = "COMPOSITE_TREND"
    /\ call.df.len > 0
    /\ DOMAIN call.mtf_data # {}
    /\ \E tf \in DOMAIN call.mtf_data : call.mtf_data[tf].len > 0
    /\ TooShort(call.method, call.df, call.mtf_data)
    /\ ret.status = "returned"
    /\ ret.value.confidence = 40 * ConfScale

(***************************************************************************)
(* Claims about the method dispatchers (SpecStages)                        *)
(***************************************************************************)
\* the method names each polymorphic component recognises, by operation
RecognisedMethods(op) ==
    CASE op = "DynamicZones.create_zones" -> ZoneMethods
      [] op = "get_trend_analysis" -> TrendMethods
      [] op = "analyze_price_action" -> PatternMethods
      [] op = "get_entry_signal" -> EntryMethods

UnknownMethodMessage(op) ==
    CASE op = "DynamicZones.create_zones" -> "Unknown zone method"
      [] op = "get_trend_analysis" -> "Unknown trend method"
      [] op = "analyze_price_action" -> "Unknown price action method"
      [] op = "get_entry_signal" -> "Unknown entry method"

Polymorphic ==
    call.op \in {"DynamicZones.create_zones", "get_trend_analysis",
                 "analyze_price_action", "get_entry_signal"}

UnknownMethodCalled ==
    /\ Polymorphic
    /\ call.method \notin RecognisedMethods(call.op)
    /\ ret # Pending

\* C6: each of the four polymorphic components (get_trend_analysis,
\* create_zones, analyze_price_action, get_entry_signal), called with a method
\* name outside its recognised set, fails with the explicit 'Unknown ... method'
\* ValueError for every input series, the empty one included, and returns no
\* result.
C6_UnknownMethodFailsFast ==
    UnknownMethodCalled =>
        /\ ret.status = "raised"
        /\ ret.exc = "ValueError"
        /\ ret.message = UnknownMethodMessage(call.op)

\* the zone builder refusing an unknown method on an empty series
C6_Witness ==
    /\ UnknownMethodCalled
    /\ call.op = "DynamicZones.create_zones"
    /\ call.df.len = 0
    /\ ret = Raised("ValueError", "Unknown zone method")

(***************************************************************************)
(* Claims about empty series (SpecStages)                                  *)
(***************************************************************************)
\* the stage is handed no candle at all: its series is empty and so is every
\* other timeframe it is given
EmptySeriesCalled ==
    /\ call.op \in {"DynamicZones.create_zones", "TechnicalAnalysis.create_zones",
                    "get_trend_analysis", "analyze_price_action", "get_entry_signal"}
    /\ call.df.len = 0
    /\ Polymorphic => call.method \in RecognisedMethods(call.op)
    /\ call.op = "get_trend_analysis" =>
          \A tf \in DOMAIN call.mtf_data : call.mtf_data[tf].len = 0
    /\ ret # Pending

\* the degraded result each stage documents
DegradedResult(op, value) ==
    CASE op \in {"DynamicZones.create_zones", "TechnicalAnalysis.create_zones"} ->
            value = NoZones
      [] op = "get_trend_analysis" ->
            value.bias = "NEUTRAL" /\ value.strength = "WEAK"
      [] op = "analyze_price_action" ->
            value.signal = "NO_SIGNAL" /\ value.confidence = 0
      [] op = "get_entry_signal" ->
            value.signal = "NO_ENTRY" /\ value.confidence = 0

\* C8: an empty candle series given to any stage with any recognised method
\* (every entry-timing method, IMMEDIATE included, every zone method, every
\* price-action method, every trend method) returns the stage's degraded
\* result (NO_ENTRY / confidence 0, empty zone map, NO_SIGNAL / confidence 0,
\* NEUTRAL / WEAK) and never raises.
C8_EmptySeriesDegrades ==
    EmptySeriesCalled =>
        /\ ret.status = "returned"
        /\ DegradedResult(call.op, ret.value)

(***************************************************************************)
(* ZoneTrader: the stages and the run_analysis driver (zone_trader.py)     *)
(***************************************************************************)
\* candles fetched per timeframe
CANDLE_COUNT == [daily |-> 100, h4 |-> 200, h1 |-> 500]

Timeframes == {"daily", "h4", "h1"}

\* pd.DataFrame(): no rows
EmptyFrame == [len |-> 0]

\* a copy of the series with the three moving-average columns added; df.ema
\* holds the values the exponential averages of the closes end on
add_moving_averages(df) == Update(df, df.ema)

get_trend_bias(df) ==
    IF df.len = 0 \/ df.len < TREND_MA_PERIOD THEN "NEUTRAL"
    ELSE LET fast_above_slow == df.fast_ma > df.slow_ma
             price_above_trend == df.close > df.trend_ma
         IN IF fast_above_slow /\ price_above_trend THEN "BULLISH"
            ELSE IF ~fast_above_slow /\ ~price_above_trend THEN "BEARISH"
            ELSE "NEUTRAL"

analyze_trend_bias(daily_data) ==
    IF daily_data.len = 0
    THEN [bias |-> "NEUTRAL", strength |-> "WEAK"]
    ELSE LET fast_slow_separation == Abs(daily_data.fast_ma - daily_data.slow_ma)
             price_trend_separation == Abs(daily_data.close - daily_data.trend_ma)
             atr == calculate_atr(daily_data, ATR_DEFAULT_PERIOD)
             \* separation > atr * 0.5, 0.3, 0.2; a comparison with NaN is False
             strength ==
                 IF /\ IsNum(atr)
                    /\ 10 * fast_slow_separation > atr.v * 5
                    /\ 10 * price_trend_separation > atr.v * 3
                 THEN "STRONG"
                 ELSE IF IsNum(atr) /\ 10 * fast_slow_separation > atr.v * 2
                 THEN "MEDIUM"
                 ELSE "WEAK"
         IN [bias |-> get_trend_bias(daily_data), strength |-> strength,
             fast_ma |-> daily_data.fast_ma, slow_ma |-> daily_data.slow_ma,
             trend_ma |-> daily_data.trend_ma, current_price |-> daily_data.close,
             atr |-> atr]

\* OandaTrader.get_candles gives a series or, on any failure, None; the
\* timeframes it gave are kept with their moving averages
get_multi_timeframe_data(candles) ==
    [tf \in {t \in Timeframes : candles[t] # None} |-> add_moving_averages(candles[tf])]

\* mtf_data.get(tf, pd.DataFrame())
MtfGet(mtf_data, tf) ==
    IF tf \in DOMAIN mtf_data THEN mtf_data[tf] ELSE EmptyFrame

run_analysis(instrument, candles) ==
    LET mtf_data == get_multi_timeframe_data(candles)
        trend_analysis == analyze_trend_bias(MtfGet(mtf_data, "daily"))
        zones == identify_zones(MtfGet(mtf_data, "h4"))
        entry_signals == find_entry_signals(MtfGet(mtf_data, "h1"), zones, trend_analysis)
    IN IF DOMAIN mtf_data = {} THEN Returned(<<>>)
       \* print(f"Current Price: {trend_analysis['current_price']:.5f}")
       ELSE IF "current_price" \notin DOMAIN trend_analysis
       THEN Raised("KeyError", "current_price")
       \* print(f"Confidence: {entry_signals['confidence']}%")
       ELSE IF "confidence" \notin DOMAIN entry_signals
       THEN Raised("KeyError", "confidence")
       ELSE Returned([instrument |-> instrument, trend_analysis |-> trend_analysis,
                      zones |-> zones, entry_signals |-> entry_signals,
                      mtf_data |-> mtf_data])

(***************************************************************************)
(* Inputs of the ZoneTrader stages                                         *)
(***************************************************************************)
\* values the three averages end on, at or one pip off the close
EmaProfiles ==
    [fast_ma : {H1Price - 1, H1Price, H1Price + 1}, slow_ma : {H1Price},
     trend_ma : {H1Price - 1, H1Price, H1Price + 1}]

FlatEma == [fast_ma |-> H1Price, slow_ma |-> H1Price, trend_ma |-> H1Price]

RawDailyFrames ==
    [len : {ATR_DEFAULT_PERIOD - 1, ATR_DEFAULT_PERIOD, TREND_MA_PERIOD},
     close : {H1Price}, tr : 0..MaxAtr, ema : EmaProfiles]

\* an H4 series before its moving averages are added
RawOf(frame) ==
    [k \in (DOMAIN frame \ MaColumns) \cup {"ema"} |->
        IF k = "ema"
        THEN [fast_ma |-> frame.fast_ma, slow_ma |-> frame.slow_ma,
              trend_ma |-> frame.trend_ma]
        ELSE frame[k]]

RawH4Frames == {RawOf(f) : f \in {g \in H4Frames : g.len > 0}}
RawH1Frames == {Update(f, [ema |-> FlatEma]) : f \in {g \in H1Frames : g.len > 0}}

\* what one run fetches: per timeframe None or at most CANDLE_COUNT candles
RunDaily ==
    {None} \cup {f \in RawDailyFrames : /\ f.len <= CANDLE_COUNT["daily"]
                                         /\ f.ema.fast_ma >= H1Price
                                         /\ f.ema.trend_ma <= H1Price}
RunH4 ==
    {None} \cup {f \in RawH4Frames : /\ f.len = INTERACTION_LOOKBACK
                                      /\ f.ema.slow_ma = H1Price
                                      /\ f.interactions["fast_ma_zone"]
                                           = f.interactions["slow_ma_zone"]}
RunH1 ==
    {None} \cup {f \in RawH1Frames : f.len = VOLUME_LOOKBACK /\ f.volume = "spike"}

Instruments == {"EUR_USD"}

MaCalls ==
    [op : {"add_moving_averages"},
     df : (RawDailyFrames \cup RunH4 \cup RunH1) \ {None}]
TrendBiasCalls ==
    [op : {"analyze_trend_bias"},
     daily_data : {EmptyFrame} \cup {add_moving_averages(f) : f \in RawDailyFrames}]
IdentifyCalls == [op : {"identify_zones"}, h4_data : H4Frames]
EntrySignalCalls ==
    {c \in SynthCalls :
        /\ c.h1_data.len \in {0, VOLUME_LOOKBACK}
        /\ c.h1_data.volume \in {"none", "spike"}
        /\ c.trend_bias.strength # "MEDIUM"}
RunCalls ==
    [op : {"run_analysis"}, instrument : Instruments,
     candles : [daily : RunDaily, h4 : RunH4, h1 : RunH1]]

\* mutant: the moving averages are written into the caller's series
AddMovingAverages_InPlace ==
    /\ call.op = "add_moving_averages"
    /\ ret = Pending
    /\ ret' = Returned(add_moving_averages(call.df))
    /\ call' = [call EXCEPT !.df = add_moving_averages(call.df)]
    /\ UNCHANGED <<tc, first, pc, requests>>

AddMovingAverages ==
    /\ call.op = "add_moving_averages"
    /\ ret = Pending
    /\ ret' = Returned(add_moving_averages(call.df))
    /\ UNCHANGED <<call, tc, first, pc, requests>>

AnalyzeTrendBias ==
    /\ call.op = "analyze_trend_bias"
    /\ ret = Pending
    /\ ret' = Returned(analyze_trend_bias(call.daily_data))
    /\ UNCHANGED <<call, tc, first, pc, requests>>

IdentifyZones ==
    /\ call.op = "identify_zones"
    /\ ret = Pending
    /\ ret' = Returned(identify_zones(call.h4_data))
    /\ UNCHANGED <<call, tc, first, pc, requests>>

RunAnalysis ==
    /\ call.op = "run_analysis"
    /\ ret = Pending
    /\ ret' = run_analysis(call.instrument, call.candles)
    /\ UNCHANGED <<call, tc, first, pc, requests>>

PipelineCalls ==
    MaCalls \cup TrendBiasCalls \cup IdentifyCalls \cup EntrySignalCalls \cup RunCalls

InitPipeline ==
    /\ call \in PipelineCalls
    /\ ret = Pending
    /\ tc = ImportConfig
    /\ first = NotYet
    /\ pc = "caller"
    /\ requests = <<>>
NextPipeline ==
    \/ AddMovingAverages
    \/ AnalyzeTrendBias
    \/ IdentifyZones
    \/ FindEntrySignals
    \/ RunAnalysis
SpecPipeline == InitPipeline /\ [][NextPipeline]_vars

(***************************************************************************)
(* Claims about the pipeline's entry-signal object (SpecPipeline)          *)
(***************************************************************************)
EntrySignalFields ==
    {"signal", "confidence", "entry_price", "active_zones", "trend_alignment",
     "risk_reward"}
\* stop_loss, take_profit and the ratio, which the code names risk_reward
RiskRewardFields == {"stop_loss", "take_profit", "risk_reward"}

StructurallyComplete(entry_signals) ==
    /\ EntrySignalFields \subseteq DOMAIN entry_signals
    /\ RiskRewardFields \subseteq DOMAIN entry_signals.risk_reward

PipelineDone == call.op \in {"find_entry_signals", "run_analysis"} /\ ret # Pending

\* C9: the entry-signal object of find_entry_signals and of run_analysis
\* always has signal, confidence, entry_price, active_zones, trend_alignment
\* and risk_reward (with stop_loss, take_profit and the ratio), also when the
\* H1 series is empty, no zones exist or a timeframe is missing, and
\* run_analysis never fails on a missing field.
C9_EntrySignalComplete ==
    PipelineDone =>
        /\ ret.status = "returned"
        /\ call.op = "find_entry_signals" => StructurallyComplete(ret.value)
        /\ (call.op = "run_analysis" /\ ret.value # <<>>) =>
              StructurallyComplete(ret.value.entry_signals)

(***************************************************************************)
(* A session: the same stage called twice on the same arguments            *)
(* (SpecSession)                                                           *)
(***************************************************************************)
\* the caller keeps the outcome and calls again with what it holds
CallAgain ==
    /\ ret # Pending
    /\ first = NotYet
    /\ first' = ret
    /\ ret' = Pending
    /\ UNCHANGED <<call, tc, pc, requests>>

SessionCalls == StageCalls \cup PipelineCalls

InitSession ==
    /\ call \in SessionCalls
    /\ ret = Pending
    /\ tc \in (IF call.op \in ConfigReaders THEN PresetConfigs ELSE {ImportConfig})
    /\ first = NotYet
    /\ pc = "caller"
    /\ requests = <<>>
NextSession ==
    \/ DynamicCreateZones
    \/ TaCreateZones
    \/ GetTrendAnalysis
    \/ CompositeTrend
    \/ AnalyzePriceAction
    \/ GetEntrySignal
    \/ AddMovingAverages
    \/ AnalyzeTrendBias
    \/ IdentifyZones
    \/ FindEntrySignals
    \/ RunAnalysis
    \/ CallAgain
SpecSession == InitSession /\ [][NextSession]_vars

CompositeCalled ==
    /\ call.op = "get_trend_analysis"
    /\ call.method = "COMPOSITE_TREND"
    /\ ret.status = "returned"

\* the bias named by majority of votes, then by summed confidence
MajorityBias(trend_results) ==
    LET bullish_votes == Votes(trend_results, "BULLISH")
        bearish_votes == Votes(trend_results, "BEARISH")
        weighted_bullish == WeightedVotes(trend_results, "BULLISH")
        weighted_bearish == WeightedVotes(trend_results, "BEARISH")
    IN IF bullish_votes > bearish_votes THEN "BULLISH"
       ELSE IF bearish_votes > bullish_votes THEN "BEARISH"
       ELSE IF weighted_bullish > weighted_bearish THEN "BULLISH"
       ELSE IF weighted_bearish > weighted_bullish THEN "BEARISH"
       ELSE "NEUTRAL"

\* C11: COMPOSITE_TREND decides by majority of component votes, then by
\* summed confidence: the direction with strictly more votes wins, the larger
\* summed confidence decides only when the counts are equal, and when both
\* are equal the result is NEUTRAL / WEAK with confidence 40; over the
\* results the components can produce a direction with fewer votes never wins.
C11_MajorityThenConfidence ==
    CompositeCalled =>
        /\ ret.value.bias = MajorityBias(CompositeResults(call.df, call.mtf_data))
        /\ ret.value.bias = "BULLISH" => ret.value.bullish_votes >= ret.value.bearish_votes
        /\ ret.value.bias = "BEARISH" => ret.value.bearish_votes >= ret.value.bullish_votes
        /\ ret.value.bias = "NEUTRAL" =>
              /\ ret.value.strength = "WEAK"
              /\ ret.value.confidence = 40 * ConfScale

\* one bullish vote whose confidence equals the sum of two bearish votes
C11_Witness ==
    /\ CompositeCalled
    /\ ret.value.bullish_votes = 1
    /\ ret.value.bearish_votes = 2
    /\ WeightedVotes(CompositeResults(call.df, call.mtf_data), "BULLISH")
         = WeightedVotes(CompositeResults(call.df, call.mtf_data), "BEARISH")
    /\ ret.value.bias = "BEARISH"

(***************************************************************************)
(* Claims about failing components of the composite trend (SpecStages)     *)
(***************************************************************************)
\* the composite classification has run to its end: called on its own, or
\* through the dispatcher on a series whose trend metrics can be computed
CompositeRan ==
    /\ ret # Pending
    /\ \/ call.op = "_composite_trend"
       \/ /\ call.op = "get_trend_analysis"
          /\ call.method = "COMPOSITE_TREND"
          /\ KeyErrorIn("_calculate_trend_metrics", call.df) = ""

\* the component methods that raise on the inputs of the call
RaisingComponents ==
    {CompositeMethods(call.mtf_data)[i] : i \in
        {j \in DOMAIN CompositeMethods(call.mtf_data) :
            MethodKeyError(CompositeMethods(call.mtf_data)[j], call.df, call.mtf_data) # ""}}

SurvivingComponents ==
    {CompositeMethods(call.mtf_data)[i] : i \in DOMAIN CompositeMethods(call.mtf_data)}
    \ RaisingComponents

RejectionCalled ==
    /\ call.op = "get_entry_signal"
    /\ call.method = "ZONE_REJECTION"
    /\ call.df.len >= REJECTION_MIN_CANDLES
    /\ ret # Pending

\* the latest candle has its low below the zone's lower bound, its close
\* above the zone's center, and a lower wick larger than
\* body x WICK_REJECTION_RATIO
RejectsFromBelow(candle, zone_data) ==
    /\ candle.low < zone_data.lower
    /\ candle.close > zone_data.center
    /\ Min(candle.open, candle.close) - candle.low
         > Abs(candle.close - candle.open) * WICK_REJECTION_RATIO

\* C13: with ZONE_REJECTION entry timing, whenever the latest candle of the
\* series has its low below a supplied zone's lower bound, its close above
\* that zone's center and a lower wick larger than body x
\* WICK_REJECTION_RATIO, get_entry_signal returns signal ENTRY with
\* direction BULLISH, whatever other zones are supplied alongside it.
C13_RejectionFromBelowIsBullish ==
    (/\ RejectionCalled
     /\ \E n \in DOMAIN call.zones : RejectsFromBelow(LatestCandle(call.df), call.zones[n]))
    => /\ ret.status = "returned"
       /\ ret.value.signal = "ENTRY"
       /\ ret.value.direction = "BULLISH"

(***************************************************************************)
(* Claims about the candlestick detectors (SpecStages)                     *)
(***************************************************************************)
BasicPatternsCalled ==
    /\ call.op = "analyze_price_action"
    /\ call.method = "BASIC_PATTERNS"
    /\ ret # Pending

\* open == close and long wicks of one length above and below
IsDojiCandle(candle) ==
    /\ candle.open = candle.close
    /\ candle.high - candle.close = candle.close - candle.low
    /\ candle.high - candle.close > 0

OnlyDojiFound ==
    /\ ret.status = "returned"
    /\ ret.value.patterns_found = <<Doji>>
    /\ ret.value.pattern_count = 1
    /\ ret.value.signal = "NEUTRAL"

\* C14 as stated: a single doji candle (open == close, long symmetric
\* wicks) fed to BASIC_PATTERNS registers exactly one pattern, Doji, with
\* direction NEUTRAL and confidence 40, and the overall signal is NEUTRAL.
C14_SingleDojiRegistered ==
    (/\ BasicPatternsCalled
     /\ call.df.len >= 1
     /\ IsDojiCandle(call.df.latest))
    => OnlyDojiFound

\* C14: a series of at least MIN_CANDLES_FOR_PATTERNS candles whose latest
\* candle is a doji (open == close, long symmetric wicks), fed to
\* BASIC_PATTERNS, registers exactly one pattern, Doji, with direction
\* NEUTRAL and confidence 40, and the overall signal is NEUTRAL with
\* confidence 40; a shorter series registers no pattern and gives NO_SIGNAL.
C14_DojiOfLongSeriesRegistered ==
    (/\ BasicPatternsCalled
     /\ call.df.len >= 1
     /\ IsDojiCandle(call.df.latest))
    => IF call.df.len >= MIN_CANDLES_FOR_PATTERNS
       THEN OnlyDojiFound /\ ret.value.confidence = 40
       ELSE ret = Returned(_no_signal)

C14_Witness ==
    /\ BasicPatternsCalled
    /\ call.df.len = MIN_CANDLES_FOR_PATTERNS
    /\ IsDojiCandle(call.df.latest)
    /\ OnlyDojiFound
    /\ ret.value.confidence = 40

(***************************************************************************)
(* Claims about the moving-average alignment (SpecStages)                  *)
(***************************************************************************)
AlignmentCalled ==
    /\ call.op = "get_trend_analysis"
    /\ call.method = "MA_ALIGNMENT"
    /\ call.df.len >= TREND_MA_PERIOD
    /\ ret # Pending

\* how many of fast_ma > slow_ma, close > trend_ma, slow_ma > trend_ma hold
ConditionsHeld(df) ==
    Cardinality({c \in {"fast_above_slow", "price_above_trend", "slow_above_trend"} :
        CASE c = "fast_above_slow" -> df.fast_ma > df.slow_ma
          [] c = "price_above_trend" -> df.close > df.trend_ma
          [] c = "slow_above_trend" -> df.slow_ma > df.trend_ma})

\* C15: with at least TREND_MA_PERIOD (200) candles, MA_ALIGNMENT returns
\* bias BULLISH whenever at least two of fast_ma > slow_ma, close > trend_ma
\* and slow_ma > trend_ma hold, STRONG when all three hold and MEDIUM when
\* exactly two do; the latest row of a 200-candle rising series (close above
\* fast_ma above slow_ma above trend_ma) therefore yields BULLISH.
C15_TwoOfThreeBullish ==
    AlignmentCalled =>
        /\ ret.status = "returned"
        /\ ConditionsHeld(call.df) >= 2 =>
              /\ ret.value.bias = "BULLISH"
              /\ ret.value.strength =
                    (IF ConditionsHeld(call.df) = 3 THEN "STRONG" ELSE "MEDIUM")
        /\ (/\ call.df.close > call.df.fast_ma
            /\ call.df.fast_ma > call.df.slow_ma
            /\ call.df.slow_ma > call.df.trend_ma) => ret.value.bias = "BULLISH"

\* exactly two conditions hold, the close being below the trend average
C15_Witness ==
    /\ AlignmentCalled
    /\ call.df.len = TREND_MA_PERIOD
    /\ ConditionsHeld(call.df) = 2
    /\ call.df.close < call.df.trend_ma
    /\ ret.status = "returned"
    /\ ret.value.bias = "BULLISH"
    /\ ret.value.strength = "MEDIUM"

(***************************************************************************)
(* Claims about the zone quality (SpecSession)                             *)
(***************************************************************************)
ZonesBuilt ==
    /\ call.op \in {"DynamicZones.create_zones", "identify_zones"}
    /\ ret.status = "returned"

\* HIGH iff rejections >= 2 and touches >= MIN_ZONE_TOUCHES, MEDIUM iff
\* rejections = 1 and touches >= MIN_ZONE_TOUCHES, LOW otherwise
QualityOfCounts(touches, rejections) ==
    IF rejections >= 2 /\ touches >= MIN_ZONE_TOUCHES THEN "HIGH"
    ELSE IF rejections = 1 /\ touches >= MIN_ZONE_TOUCHES THEN "MEDIUM"
    ELSE "LOW"

\* C16: the quality of a zone is a function of its touch and rejection
\* counts only: HIGH iff rejections >= 2 and touches >= MIN_ZONE_TOUCHES,
\* MEDIUM iff rejections = 1 and touches >= MIN_ZONE_TOUCHES, LOW
\* otherwise, identically for the zones of DynamicZones (from
\* _calculate_zone_metadata) and of ZoneTrader (from _assess_zone_quality).
C16_QualityFromCounts ==
    ZonesBuilt =>
        \A n \in DOMAIN ret.value :
            ret.value[n].quality
                = QualityOfCounts(ret.value[n].touches, ret.value[n].rejections)

\* a ZoneTrader zone touched often enough and rejected once
C16_Witness ==
    /\ ZonesBuilt
    /\ call.op = "identify_zones"
    /\ \E n \in DOMAIN ret.value :
          /\ ret.value[n].rejections = 1
          /\ ret.value[n].touches >= MIN_ZONE_TOUCHES
          /\ ret.value[n].quality = "MEDIUM"

(***************************************************************************)
(* Claims about the overall price-action signal (SpecStages)               *)
(***************************************************************************)
PatternsReported ==
    /\ call.op = "analyze_price_action"
    /\ call.method \in {"BASIC_PATTERNS", "REVERSAL_PATTERNS", "CONTINUATION_PATTERNS",
                        "MOMENTUM_PATTERNS", "COMPREHENSIVE"}
    /\ ret.status = "returned"

\* C17: for every price-action method that reports patterns (BASIC_PATTERNS,
\* REVERSAL_PATTERNS, CONTINUATION_PATTERNS, MOMENTUM_PATTERNS,
\* COMPREHENSIVE) the overall signal is the direction (BULLISH or BEARISH)
\* with the larger pattern count, and the overall confidence is the sum of
\* the confidences of the patterns of that winning direction only, capped
\* at 100; when no pattern is found the result is NO_SIGNAL with
\* confidence 0.
C17_WinningDirectionConfidence ==
    PatternsReported =>
        LET patterns == ret.value.patterns_found
            bullish == WithDirection(patterns, "BULLISH")
            bearish == WithDirection(patterns, "BEARISH")
        IN /\ patterns = <<>> =>
                 ret.value.signal = "NO_SIGNAL" /\ ret.value.confidence = 0
           /\ Len(bullish) > Len(bearish) =>
                 /\ ret.value.signal = "BULLISH"
                 /\ ret.value.confidence = Min(SumConfidence(bullish), 100)
           /\ Len(bearish) > Len(bullish) =>
                 /\ ret.value.signal = "BEARISH"
                 /\ ret.value.confidence = Min(SumConfidence(bearish), 100)

(***************************************************************************)
(* safe_analysis.py: safe_get_signals, request by request (SpecFetch)      *)
(*                                                                         *)
(* ZoneTrader.get_multi_timeframe_data asks OandaTrader.get_candles for    *)
(* the daily, H4 and H1 series in turn; get_candles gives a series or, on  *)
(* any failure and when the source has no candle, None.  pc is the         *)
(* timeframe about to be requested, then "analyse", "fallback" and "done". *)
(***************************************************************************)
GRANULARITY == [daily |-> "D", h4 |-> "H4", h1 |-> "H1"]
FALLBACK_CANDLE_COUNT == 20
\* current_price = 1.0, in pips of 0.0001
FALLBACK_PRICE == 10000

Request(granularity, count, outcome) ==
    [granularity |-> granularity, count |-> count, outcome |-> outcome]

\* what the three requests of get_multi_timeframe_data gave, by timeframe
Fetched(log) == [daily |-> log[1].outcome, h4 |-> log[2].outcome, h1 |-> log[3].outcome]

\* NaN moving averages and ATR are replaced by the price and a thousandth
\* of it, NaN stops and targets by None
_sanitize_results(results) ==
    LET trend == results.trend_analysis
        signals == results.entry_signals
        rr == signals.risk_reward
        clean(x) == IF x = NaN THEN None ELSE x
    IN [results EXCEPT
          !.trend_analysis =
              [trend EXCEPT !.atr = IF IsNum(@) THEN @
                                    ELSE Ratio(trend.current_price, 1000)],
          !.entry_signals =
              [signals EXCEPT !.risk_reward =
                  [rr EXCEPT !.stop_loss = clean(@), !.take_profit = clean(@)]]]

\* the fallback asks for FALLBACK_CANDLE_COUNT H1 candles to show a price
_create_safe_fallback(instrument, h1_data) ==
    LET current_price == IF h1_data # None THEN h1_data.close ELSE FALLBACK_PRICE
    IN [instrument |-> instrument,
        trend_analysis |->
            [bias |-> "NEUTRAL", strength |-> "WEAK", fast_ma |-> current_price,
             slow_ma |-> current_price, trend_ma |-> current_price,
             current_price |-> current_price, atr |-> Ratio(current_price, 1000)],
        entry_signals |->
            [signal |-> "NO_SIGNAL", confidence |-> 0, entry_price |-> current_price,
             active_zones |-> <<>>, trend_alignment |-> FALSE,
             risk_reward |-> [stop_loss |-> None, take_profit |-> None,
                              risk_reward |-> None]],
        zones |-> NoZones,
        mtf_data |-> <<>>]

\* what the source may give to each request
SourceOf(tf) ==
    CASE tf = "daily" -> RunDaily
      [] tf = "h4" -> RunH4
      [] tf = "h1" -> RunH1

FallbackSource == {None} \cup {f \in RawH1Frames : f.len = VOLUME_LOOKBACK /\ f.volume = "spike"}

FetchCalls == [op : {"safe_get_signals"}, instrument : Instruments]

AfterTimeframe(tf) ==
    CASE tf = "daily" -> "h4"
      [] tf = "h4" -> "h1"
      [] tf = "h1" -> "analyse"

\* self.oanda.get_candles(instrument, timeframe, tc.CANDLE_COUNT[timeframe])
FetchTimeframe ==
    /\ call.op = "safe_get_signals"
    /\ pc \in Timeframes
    /\ \E outcome \in SourceOf(pc) :
          requests' = Append(requests, Request(GRANULARITY[pc], CANDLE_COUNT[pc], outcome))
    /\ pc' = AfterTimeframe(pc)
    /\ UNCHANGED <<call, ret, tc, first>>

\* the rest of run_analysis; an exception and an empty result lead to the
\* fallback
Analyse ==
    /\ call.op = "safe_get_signals"
    /\ pc = "analyse"
    /\ LET results == run_analysis(call.instrument, Fetched(requests))
       IN IF results.status = "raised" \/ results.value = <<>>
          THEN pc' = "fallback" /\ ret' = ret
          ELSE pc' = "done" /\ ret' = Returned(_sanitize_results(results.value))
    /\ UNCHANGED <<call, tc, first, requests>>

\* oanda.get_candles(instrument, "H1", 20) inside _create_safe_fallback
FetchFallback ==
    /\ call.op = "safe_get_signals"
    /\ pc = "fallback"
    /\ \E outcome \in FallbackSource :
          /\ requests' = Append(requests, Request("H1", FALLBACK_CANDLE_COUNT, outcome))
          /\ ret' = Returned(_create_safe_fallback(call.instrument, outcome))
    /\ pc' = "done"
    /\ UNCHANGED <<call, tc, first>>

InitFetch ==
    /\ call \in FetchCalls
    /\ ret = Pending
    /\ tc = ImportConfig
    /\ first = NotYet
    /\ pc = "daily"
    /\ requests = <<>>
NextFetch ==
    \/ FetchTimeframe
    \/ Analyse
    \/ FetchFallback
SpecFetch == InitFetch /\ [][NextFetch]_vars

(***************************************************************************)
(* Claims about a failing candle source (SpecFetch)                        *)
(***************************************************************************)
\* a request failed or gave no data
SourceFailed == \E i \in DOMAIN requests : requests[i].outcome = None

NoAnalysisResult(results) ==
    /\ results.entry_signals.signal = "NO_SIGNAL"
    /\ results.entry_signals.confidence = 0
    /\ results.entry_signals.risk_reward.stop_loss = None
    /\ results.entry_signals.risk_reward.take_profit = None
    /\ results.zones = NoZones

\* C18: when the candle source fails or returns no data, the analysis ends
\* in the no-analysis result (signal NO_SIGNAL, confidence 0, null stop_loss
\* and take_profit, empty zones) and issues no further candle fetch request
\* after the failure (no retry).
C18_NoFetchAfterFailure ==
    /\ []((pc = "done" /\ SourceFailed) =>
              ret.status = "returned" /\ NoAnalysisResult(ret.value))
    /\ [][SourceFailed => requests' = requests]_vars

(***************************************************************************)
(* Claims about the trend-alignment contribution (SpecSynth)               *)
(***************************************************************************)
\* +25 aligned with a STRONG trend, +15 aligned otherwise, -20 against a
\* non-neutral bias, 0 for a neutral bias or no directional signal
StatedTrendPoints(direction, trend) ==
    IF direction \in {"BULLISH", "BEARISH"} /\ direction = trend.bias
    THEN (IF trend.strength = "STRONG" THEN 25 ELSE 15)
    ELSE IF direction \in {"BULLISH", "BEARISH"} /\ trend.bias \in {"BULLISH", "BEARISH"}
    THEN -20
    ELSE 0

\* C19: the trend-alignment contribution to the Signal Synthesizer score is
\* +25 when the signal direction equals the trend bias and the trend
\* strength is STRONG, +15 when it equals the bias and the strength is not
\* STRONG, -20 when the signal direction opposes a non-neutral trend bias,
\* and 0 in every other case (neutral bias, or no directional signal from
\* price action): the confidence returned is the sum of the confluence,
\* zone, trend and volume contributions, at most 100.
C19_TrendContribution ==
    SynthFull =>
        LET active == ActiveZones(call.zones, call.h1_data.close)
        IN ret.value.confidence =
              Min(ConfluenceBase(SynthConfluence).pts
                  + ZonePoints(Len(active) > 0, active)
                  + StatedTrendPoints(SynthDirection, call.trend_bias)
                  + VolumePoints(calculate_volume_profile(call.h1_data)), 100)

(***************************************************************************)
(* Claims about the confidence of a pattern match (SpecStages)             *)
(***************************************************************************)
PatternsReturned ==
    /\ call.op = "analyze_price_action"
    /\ ret.status = "returned"
    /\ "patterns_found" \in DOMAIN ret.value

\* C20: every PatternMatch reported in patterns_found has a confidence
\* within 0..100, including the REVERSAL_PATTERNS matches after the
\* zone-proximity bonus (ZONE_CONTEXT_BONUS) and the trend-alignment bonus
\* (TREND_ALIGNMENT_BONUS) have been applied.
C20_PatternConfidenceInRange ==
    PatternsReturned =>
        \A i \in DOMAIN ret.value.patterns_found :
            /\ 0 <= ret.value.patterns_found[i].confidence
            /\ ret.value.patterns_found[i].confidence <= 100

(***************************************************************************)
(* Claims about the confluence of patterns (SpecStages)                    *)
(***************************************************************************)
ConfluencesReturned ==
    /\ call.op = "analyze_price_action"
    /\ call.method = "CONFLUENCE_PATTERNS"
    /\ ret.status = "returned"
    /\ "confluences" \in DOMAIN ret.value

\* the patterns of a confluence group, each counted once; in the windows of
\* RecentCandles no pattern is detected on two candles, so that a name
\* stands for one detection
DistinctDetections(confluence) ==
    {confluence.patterns[i].name : i \in DOMAIN confluence.patterns}

\* C21: CONFLUENCE_PATTERNS forms a directional confluence group only when at
\* least MIN_CONFLUENCE_PATTERNS distinct pattern detections of that
\* direction exist: each detected pattern is counted once, so that a single
\* detected pattern (one Hammer on the latest candle) never forms a
\* confluence by itself.
C21_ConfluenceNeedsDistinctPatterns ==
    ConfluencesReturned =>
        \A i \in DOMAIN ret.value.confluences :
            Cardinality(DistinctDetections(ret.value.confluences[i]))
                >= MIN_CONFLUENCE_PATTERNS

(***************************************************************************)
(* Claims about the CONFLUENCE_CONFIRMATION entry timing (SpecStages)      *)
(***************************************************************************)
ConfluenceEntryCalled ==
    /\ call.op = "get_entry_signal"
    /\ call.method = "CONFLUENCE_CONFIRMATION"
    /\ ret.status = "returned"

ConfirmationNames == {"zone_rejection", "pullback_completion", "volume", "price_action"}

\* the weight of a confirmation that holds for the call, -1 when it does not hold
ConfirmationWeight(name) ==
    CASE name = "zone_rejection" ->
            IF _zone_rejection_entry(call.df, call.zones).signal = "ENTRY"
            THEN _zone_rejection_entry(call.df, call.zones).confidence ELSE -1
      [] name = "pullback_completion" ->
            IF _pullback_completion_entry(call.df, call.zones).signal = "ENTRY"
            THEN _pullback_completion_entry(call.df, call.zones).confidence ELSE -1
      [] name = "volume" -> IF _has_volume_confirmation(call.df) THEN 15 ELSE -1
      [] name = "price_action" ->
            IF _has_price_action_confirmation(call.df) THEN 20 ELSE -1

ConfirmationsHeld == {n \in ConfirmationNames : ConfirmationWeight(n) >= 0}

WeightOfHeld(name) == IF name \in ConfirmationsHeld THEN ConfirmationWeight(name) ELSE 0

\* C22: CONFLUENCE_CONFIRMATION returns ENTRY exactly when the number of
\* confirmations among zone rejection, pullback completion, volume
\* confirmation and strong-close price action is at least
\* MIN_CONFLUENCE_CONFIRMATIONS, and then its confidence is the sum of the
\* confirmations' weights capped at 95; otherwise it returns NO_ENTRY with
\* confidence 0.
C22_EntryByConfirmationCount ==
    ConfluenceEntryCalled =>
        IF Cardinality(ConfirmationsHeld) >= tc.MIN_CONFLUENCE_CONFIRMATIONS
        THEN /\ ret.value.signal = "ENTRY"
             /\ ret.value.confidence =
                    Min(WeightOfHeld("zone_rejection") + WeightOfHeld("pullback_completion")
                        + WeightOfHeld("volume") + WeightOfHeld("price_action"), 95)
        ELSE /\ ret.value.signal = "NO_ENTRY"
             /\ ret.value.confidence = 0

\* an entry on exactly the configured number of confirmations, two at least
C22_Witness ==
    /\ ConfluenceEntryCalled
    /\ ret.value.signal = "ENTRY"
    /\ Cardinality(ConfirmationsHeld) = tc.MIN_CONFLUENCE_CONFIRMATIONS
    /\ tc.MIN_CONFLUENCE_CONFIRMATIONS >= 2

(***************************************************************************)
(* A session that applies presets of trading_config and calls the four     *)
(* dispatchers without a method argument (SpecPresets)                     *)
(*                                                                         *)
(* call.applied is the sequence of presets applied since import, call.op   *)
(* the last operation and call.method the method a dispatcher ran.         *)
(***************************************************************************)
MaxPresets == 4      \* presets applied in a session

PresetNames ==
    {"use_conservative_settings", "use_aggressive_settings", "use_balanced_settings",
     "use_original_settings"}

\* the body of the preset function of that name
PresetBody(name, cfg) ==
    CASE name = "use_conservative_settings" -> use_conservative_settings(cfg)
      [] name = "use_aggressive_settings" -> use_aggressive_settings(cfg)
      [] name = "use_balanced_settings" -> use_balanced_settings(cfg)
      [] name = "use_original_settings" -> use_original_settings(cfg)

ApplyPreset(name) ==
    /\ Len(call.applied) < MaxPresets
    /\ tc' = PresetBody(name, tc)
    /\ call' = [op |-> name, applied |-> Append(call.applied, name), method |-> ""]
    /\ ret' = Pending
    /\ UNCHANGED <<first, pc, requests>>

UseConservativeSettings == ApplyPreset("use_conservative_settings")
UseAggressiveSettings == ApplyPreset("use_aggressive_settings")
UseBalancedSettings == ApplyPreset("use_balanced_settings")
UseOriginalSettings == ApplyPreset("use_original_settings")

\* method: str = tc.<SETTING> in a def statement: the default is the value
\* the setting has when the class body runs, at import
DefaultMethod(op) ==
    CASE op = "get_entry_signal" -> ImportConfig.ENTRY_TIMING_METHOD
      [] op = "get_trend_analysis" -> ImportConfig.TREND_ANALYSIS_METHOD
      [] op = "create_zones" -> ImportConfig.ZONE_SIZING_METHOD
      [] op = "analyze_price_action" -> ImportConfig.PRICE_ACTION_METHOD

\* the setting a dispatcher's method parameter names
SettingOf(op) ==
    CASE op = "get_entry_signal" -> "ENTRY_TIMING_METHOD"
      [] op = "get_trend_analysis" -> "TREND_ANALYSIS_METHOD"
      [] op = "create_zones" -> "ZONE_SIZING_METHOD"
      [] op = "analyze_price_action" -> "PRICE_ACTION_METHOD"

\* the series the session analyses
SessionEntryFrame ==
    EntryFrame(PULLBACK_LOOKBACK, Candle(H1Price + 4, H1Price + 6, H1Price - 20, H1Price + 5),
               H1Price + 4, H1Price - 20, H1Price + 6, "spike")
SessionZones ==
    ta_create_zones([len |-> 1, fast_ma |-> H1Price, slow_ma |-> H1Price,
                     trend_ma |-> H1Price], ZONE_WIDTH_PIPS)
SessionTrFrame == TrFrame(TREND_MA_PERIOD, RisingMa, FlatSlopes, NoStructure, NoMomentum, 1)
SessionDzFrame == DzFrame(VOLATILITY_LOOKBACK, 1, 3, "nan", 0, 0, NoMeta)
SessionPaFrame ==
    PaFrame(MIN_CANDLES_FOR_PATTERNS,
            <<PlainCandle, PlainCandle, PlainCandle, PlainCandle, HammerCandle>>, <<>>, <<>>)

DefaultCall(op, outcome) ==
    /\ ret = Pending
    /\ call' = [call EXCEPT !.op = op, !.method = DefaultMethod(op)]
    /\ ret' = outcome
    /\ UNCHANGED <<tc, first, pc, requests>>

\* entry_timing.get_entry_signal(df, zones)
DefaultGetEntrySignal ==
    DefaultCall("get_entry_signal",
                get_entry_signal(SessionEntryFrame, SessionZones,
                                 DefaultMethod("get_entry_signal")))

\* trend_analysis.get_trend_analysis(df)
DefaultGetTrendAnalysis ==
    DefaultCall("get_trend_analysis",
                get_trend_analysis(SessionTrFrame, DefaultMethod("get_trend_analysis"), NoMtf))

\* dynamic_zones.create_zones(df)
DefaultCreateZones ==
    DefaultCall("create_zones",
                create_zones(SessionDzFrame, DefaultMethod("create_zones"), NoTrendData))

\* price_action.analyze_price_action(df)
DefaultAnalyzePriceAction ==
    DefaultCall("analyze_price_action",
                analyze_price_action(SessionPaFrame, NoZones, NoTrendData,
                                     DefaultMethod("analyze_price_action")))

InitPresets ==
    /\ call = [op |-> "import", applied |-> <<>>, method |-> ""]
    /\ ret = Pending
    /\ tc = ImportConfig
    /\ first = NotYet
    /\ pc = "caller"
    /\ requests = <<>>
NextPresets ==
    \/ UseConservativeSettings
    \/ UseAggressiveSettings
    \/ UseBalancedSettings
    \/ UseOriginalSettings
    \/ DefaultGetEntrySignal
    \/ DefaultGetTrendAnalysis
    \/ DefaultCreateZones
    \/ DefaultAnalyzePriceAction
SpecPresets == InitPresets /\ [][NextPresets]_vars

(***************************************************************************)
(* Claims about the presets (SpecPresets)                                  *)
(***************************************************************************)
PresetApplied == call.applied # <<>>

LastPreset == call.applied[Len(call.applied)]

\* C23: after any sequence of preset applications, the values of all
\* preset-controlled settings (the four method names,
\* MIN_CONFLUENCE_CONFIRMATIONS and ATR_ZONE_MULTIPLIER) depend only on the
\* last preset applied, not on the presets applied before it: they are the
\* values that preset gives when it is the only one applied, also when the
\* last preset is use_original_settings.
C23_LastPresetDecides ==
    PresetApplied => tc = PresetBody(LastPreset, ImportConfig)

Dispatchers ==
    {"get_entry_signal", "get_trend_analysis", "create_zones", "analyze_price_action"}

DefaultCalled == call.op \in Dispatchers /\ ret # Pending

\* C26: after a preset function is applied at runtime, a call of
\* get_entry_signal, get_trend_analysis, create_zones or analyze_price_action
\* made without a method argument dispatches to the method that the most
\* recently applied preset selected.
C26_DefaultFollowsLastPreset ==
    (PresetApplied /\ DefaultCalled) =>
        call.method = PresetBody(LastPreset, ImportConfig)[SettingOf(call.op)]

(***************************************************************************)
(* Claims about the candles requested (SpecFetch)                          *)
(***************************************************************************)
\* the requests of get_multi_timeframe_data: daily, H4 and H1 in turn
TimeframeRequests == {i \in DOMAIN requests : i <= Cardinality(Timeframes)}

\* C24: for every timeframe the pipeline uses (D for the trend bias, H4 for
\* the zones, H1 for the execution) the number of candles ZoneTrader
\* requests is at least the longest lookback of the sub-components run on it
\* (TREND_MA_PERIOD), so that the trend bias of the daily series is not
\* forced into its insufficient-history NEUTRAL result.
C24_RequestsCoverLookback ==
    \A i \in TimeframeRequests : requests[i].count >= TREND_MA_PERIOD

(***************************************************************************)
(* EmailNotifier.send_signal_notification (email_notifications.py), called *)
(* by the dashboard on every refresh (SpecNotify)                          *)
(*                                                                         *)
(* Prices are in millionths; requests is the log of what the SMTP server   *)
(* and the sheet accepted: the emails sent and the rows appended.          *)
(***************************************************************************)
MaxCalls == 3        \* calls of send_signal_notification in a session

\* round(price, 5) if price else None, in hundred-thousandths; the inputs
\* end on no digit 5
Round5(price) ==
    IF price = None \/ price.v = 0 THEN None ELSE Num((price.v + 5) \div 10)

\* current_entry or '': the cell of a missing price is blank, and
\* round(float(cell), 5) if cell else None reads it back
Cell(value) == IF value = None THEN [kind |-> "blank", v |-> 0] ELSE value
FromCell(cell) == IF cell.kind = "blank" THEN None ELSE cell

\* pair, entry, take profit, stop loss and date of the call
CurrentKey(c) ==
    [pair |-> c.pair, entry |-> Round5(c.entry_price), tp |-> Round5(c.take_profit),
     sl |-> Round5(c.stop_loss), date |-> c.date]

\* the row sheet.append_row writes
RowOf(c) ==
    [pair |-> c.pair, signal |-> c.signal, entry |-> Cell(Round5(c.entry_price)),
     tp |-> Cell(Round5(c.take_profit)), sl |-> Cell(Round5(c.stop_loss)),
     date |-> c.date, confidence |-> c.confidence]

\* the five values of a row that the duplicate test compares
KeyOfRow(row) ==
    [pair |-> row.pair, entry |-> FromCell(row.entry), tp |-> FromCell(row.tp),
     sl |-> FromCell(row.sl), date |-> row.date]

\* sheet.get_all_records()
Records(log) == SelectSeq(log, LAMBDA r : r.service = "sheet")

Sent(c) == [service |-> "smtp", key |-> CurrentKey(c)]
Appended(c) == [service |-> "sheet", row |-> RowOf(c)]

Outcome(success, message) == Returned([success |-> success, message |-> message])

\* the steps of a call that can fail
FailurePoints == {"client", "records", "config", "sendmail", "append_row"}

\* one call that fails at the step failure ("none": at no step)
send_signal_notification(c, log, failure) ==
    LET records == Records(log)
        matches == {i \in DOMAIN records : KeyOfRow(records[i].row) = CurrentKey(c)}
    IN IF failure = "client"
       THEN [ret |-> Outcome(FALSE, "Cannot connect to Google Sheets"), log |-> log]
       ELSE IF failure = "records"
       THEN [ret |-> Outcome(FALSE, "Sheet error"), log |-> log]
       ELSE IF matches # {}
       THEN [ret |-> Outcome(FALSE, "Duplicate"), log |-> log]
       ELSE IF failure = "config"
       THEN [ret |-> Outcome(FALSE, "Email configuration not found in secrets"),
             log |-> log]
       ELSE IF failure = "sendmail"
       THEN [ret |-> Outcome(FALSE, "Failed to send email"), log |-> log]
       ELSE IF failure = "append_row"
       THEN [ret |-> Outcome(FALSE, "Failed to send email"), log |-> Append(log, Sent(c))]
       ELSE [ret |-> Outcome(TRUE, "Email notification sent successfully"),
             log |-> Append(Append(log, Sent(c)), Appended(c))]

NotifyWith(failures) ==
    /\ call.op = "send_signal_notification"
    /\ ret = Pending
    /\ \E failure \in failures \cup {"none"} :
          LET done == send_signal_notification(call, requests, failure)
          IN ret' = done.ret /\ requests' = done.log
    /\ UNCHANGED <<call, tc, first, pc>>

SendSignalNotification == NotifyWith(FailurePoints)

\* the signals of one pair the dashboard shows: two entries that round to
\* one price, a third entry, and a signal without take profit
NotifiedSignals ==
    {[entry_price |-> Num(e), take_profit |-> t] :
        e \in {1100001, 1100004}, t \in {Num(1102004)}}
    \cup {[entry_price |-> Num(1100016), take_profit |-> Num(1102004)],
          [entry_price |-> Num(1100001), take_profit |-> None]}

NotifyDays == {1, 2}

NotifyCall(n, s, date) ==
    [op |-> "send_signal_notification", n |-> n, pair |-> "EUR_USD",
     signal |-> "STRONG_BULLISH", confidence |-> 70, entry_price |-> s.entry_price,
     take_profit |-> s.take_profit, stop_loss |-> Num(1099004), date |-> date]

\* the next refresh of the dashboard, on the same day or a later one
DisplayMultiPairSignals ==
    /\ call.op = "send_signal_notification"
    /\ ret # Pending
    /\ call.n < MaxCalls
    /\ \E s \in NotifiedSignals, date \in {d \in NotifyDays : d >= call.date} :
          call' = NotifyCall(call.n + 1, s, date)
    /\ ret' = Pending
    /\ UNCHANGED <<tc, first, pc, requests>>

InitNotify ==
    /\ call \in {NotifyCall(1, s, 1) : s \in NotifiedSignals}
    /\ ret = Pending
    /\ tc = ImportConfig
    /\ first = NotYet
    /\ pc = "caller"
    /\ requests = <<>>
NextNotify ==
    \/ SendSignalNotification
    \/ DisplayMultiPairSignals
SpecNotify == InitNotify /\ [][NextNotify]_vars

(***************************************************************************)
(* Claims about the notifications (SpecNotify)                             *)
(***************************************************************************)
EmailsFor(key) ==
    {i \in DOMAIN requests : requests[i].service = "smtp" /\ requests[i].key = key}

\* the call finds a row of the sheet that matches its key
MatchingRowFound ==
    /\ call.op = "send_signal_notification"
    /\ ret = Pending
    /\ \E i \in DOMAIN Records(requests) :
          KeyOfRow(Records(requests)[i].row) = CurrentKey(call)

\* the call got as far as reading the records of the sheet
RecordsRead ==
    ret'.value.message \notin {"Cannot connect to Google Sheets", "Sheet error"}

\* C25: for a given pair, entry price, take profit and stop loss (rounded to
\* 5 decimals) and calendar date at most one email is ever sent across any
\* sequence of send_signal_notification calls, including sequences in which
\* the SMTP step or the sheet write of an earlier call fails; a call that
\* finds a matching row sends nothing and returns a Duplicate failure.
C25_AtMostOneEmailPerKey ==
    /\ [](\A i \in DOMAIN requests :
             requests[i].service = "smtp"
                 => Cardinality(EmailsFor(requests[i].key)) <= 1)
    /\ [][(MatchingRowFound /\ ret' # Pending /\ RecordsRead) =>
             /\ requests' = requests
             /\ ret'.value.success = FALSE
             /\ ret'.value.message = "Duplicate"]_vars

(***************************************************************************)
(* Claims about strong signals and the trend (SpecSynth)                   *)
(***************************************************************************)
\* C27: the Signal Synthesizer never issues a STRONG_BULLISH or
\* STRONG_BEARISH final signal against a non-neutral trend bias: whenever the
\* final signal is STRONG_<direction> and the trend bias is not NEUTRAL, the
\* trend bias equals <direction>, for every combination of confluence, zone
\* occupancy and volume inputs.
C27_NoStrongSignalAgainstTrend ==
    SynthFull =>
        /\ (ret.value.signal = "STRONG_BULLISH" /\ call.trend_bias.bias # "NEUTRAL")
               => call.trend_bias.bias = "BULLISH"
        /\ (ret.value.signal = "STRONG_BEARISH" /\ call.trend_bias.bias # "NEUTRAL")
               => call.trend_bias.bias = "BEARISH"

\* a strong final signal under a non-neutral trend bias
C27_Witness ==
    /\ SynthFull
    /\ ret.value.signal = "STRONG_BEARISH"
    /\ call.trend_bias.bias = "BEARISH"

(***************************************************************************)
(* Claims about the symmetry of MA_ALIGNMENT (SpecStages)                  *)
(***************************************************************************)
\* the latest row reflected about its trend average: each of the three
\* comparisons whose two sides differ is negated
Mirrored(df) ==
    [df EXCEPT !.close = 2 * df.trend_ma - df.close,
               !.fast_ma = 2 * df.trend_ma - df.fast_ma,
               !.slow_ma = 2 * df.trend_ma - df.slow_ma]

NoTies(df) ==
    /\ df.fast_ma # df.slow_ma
    /\ df.close # df.trend_ma
    /\ df.slow_ma # df.trend_ma

Opposite(bias) ==
    CASE bias = "BULLISH" -> "BEARISH"
      [] bias = "BEARISH" -> "BULLISH"
      [] OTHER -> bias

\* C28: MA_ALIGNMENT is direction-symmetric: negating all three comparisons
\* (fully bullish against fully bearish alignment, 2-of-3 bullish against
\* 2-of-3 bearish) flips the bias and leaves strength and confidence
\* unchanged, so that a STRONG result never has a lower confidence than a
\* MEDIUM result of the same bias.
C28_AlignmentSymmetric ==
    (AlignmentCalled /\ ret.status = "returned" /\ NoTies(call.df)) =>
        LET mirrored == _ma_alignment_trend(Mirrored(call.df))
        IN /\ mirrored.bias = Opposite(ret.value.bias)
           /\ mirrored.strength = ret.value.strength
           /\ mirrored.confidence = ret.value.confidence
           /\ \A other \in {_ma_alignment_trend(f) :
                              f \in {g \in TrFrames : g.len >= TREND_MA_PERIOD}} :
                  (/\ other.bias = ret.value.bias
                   /\ other.strength = "MEDIUM"
                   /\ ret.value.strength = "STRONG")
                      => ret.value.confidence >= other.confidence

\* the zone rejection and the pullback completion of the call both confirm,
\* one BULLISH and the other BEARISH
OpposedConfirmations ==
    LET zone_rejection == _zone_rejection_entry(call.df, call.zones)
        pullback_completion == _pullback_completion_entry(call.df, call.zones)
    IN /\ zone_rejection.signal = "ENTRY"
       /\ pullback_completion.signal = "ENTRY"
       /\ zone_rejection.direction # pullback_completion.direction

\* C29: CONFLUENCE_CONFIRMATION fires only on confirmations that agree in
\* direction: it never returns ENTRY by counting a BULLISH zone rejection
\* together with a BEARISH pullback completion (or the reverse) as two
\* confirmations.
C29_ConfirmationsAgree ==
    (ConfluenceEntryCalled /\ ret.value.signal = "ENTRY") =>
        \/ ~OpposedConfirmations
        \/ Cardinality(ConfirmationsHeld \ {"zone_rejection"})
               >= tc.MIN_CONFLUENCE_CONFIRMATIONS
        \/ Cardinality(ConfirmationsHeld \ {"pullback_completion"})
               >= tc.MIN_CONFLUENCE_CONFIRMATIONS

(***************************************************************************)
(* Claims about the rejection confidence (SpecStages)                      *)
(***************************************************************************)
RejectionEntryReturned ==
    /\ RejectionCalled
    /\ ret.status = "returned"
    /\ ret.value.signal = "ENTRY"

\* the zone the returned entry names
RejectedZone == call.zones[ret.value.zone]

ZoneHeight(zone_data) == zone_data.upper - zone_data.lower

\* C30: every ENTRY returned by ZONE_REJECTION entry timing for a zone of
\* positive height, with WICK_REJECTION_RATIO 2.0, has a confidence between
\* 75 and 95: the detection forces a wick strength above 2 (wick bonus above
\* 20) and a bounce of more than half the zone's height (bounce bonus above
\* 10) on top of the base 45, and the total is capped at 95.
C30_RejectionConfidenceRange ==
    (RejectionEntryReturned /\ ZoneHeight(RejectedZone) > 0) =>
        LET rejection_signal == _detect_zone_rejection(LatestCandle(call.df), RejectedZone)
            ws == rejection_signal.wick_strength
        IN /\ ws.num * 10 > 20 * ws.den
           /\ rejection_signal.bounce_distance * 20 > 10 * ZoneHeight(RejectedZone)
           /\ ret.value.confidence >= 75
           /\ ret.value.confidence <= 95

\* an entry below the cap, whose confidence the two bonuses decide
C30_Witness ==
    /\ RejectionEntryReturned
    /\ ZoneHeight(RejectedZone) > 0
    /\ ret.value.confidence < 80

====
